---- MODULE Spec2Model ----
(***************************************************************************)
(* Model of the command translation and execution layer of the RethinkDB    *)
(* MCP tool server (server/server.go and the four-tool main.go variant).    *)
(*                                                                         *)
(* The state is the contents of one collection of the database, together    *)
(* with a record of the last command executed: its request, the collection  *)
(* before it ran, the driver calls it issued and the response it returned.  *)
(* Every handler is one action; the database engine is modelled by the      *)
(* operators Insert, GetDelete, FilterDelete and RunQuery, which follow the *)
(* engine's documented semantics for the terms the handlers build.          *)
(***************************************************************************)
EXTENDS Integers, Sequences, FiniteSets, TLC

(***************************************************************************)
(* Bounds of the model.                                                     *)
(***************************************************************************)
\* number of distinct primary-key values (named by callers or generated)
NumKeys == 2
\* longest array payload of write_data
MaxBatch == 2
\* number of commands the transport runs at the same time
NumSlots == 2

(***************************************************************************)
(* Program constants.                                                       *)
(***************************************************************************)
DefaultLimit == 100
MaxLimit == 1000

testDB == "mcp_test_db"
testTable == "mcp_test_table"
testJoinTable == "mcp_test_join_table"

(***************************************************************************)
(* Generic documents.  A value is a tagged record; t = "absent" marks a     *)
(* field the document does not have.  Strings are coded as small integers   *)
(* (v), a number is its value (v); an object carries one level of           *)
(* sub-fields (o), 0 = sub-field absent.                                    *)
(***************************************************************************)
Fields == {"id", "status", "profile", "age"}
SubKeys == {"x", "y"}

NoObj == [k \in SubKeys |-> 0]
Absent == [t |-> "absent", v |-> 0, o |-> NoObj]
Str(n) == [t |-> "string", v |-> n, o |-> NoObj]
Num(n) == [t |-> "number", v |-> n, o |-> NoObj]
Obj(f) == [t |-> "object", v |-> 0, o |-> f]

NoDoc == [f \in Fields |-> Absent]

KeyCodes == 1..NumKeys

StatusVals == {Absent, Str(1), Str(2)}
ProfileVals == {Absent, Obj([x |-> 1, y |-> 0]), Obj([x |-> 0, y |-> 1])}

\* the documents a caller sends: the key is named or left to the engine
PayloadDocs ==
  { [id |-> i, status |-> s, profile |-> p, age |-> Absent] :
      i \in {Absent} \cup {Str(k) : k \in KeyCodes}, s \in StatusVals, p \in ProfileVals }

\* the documents of array payloads
ArrayDocs ==
  { [id |-> Str(1), status |-> Str(1), profile |-> Absent, age |-> Absent],
    [id |-> Absent, status |-> Str(2), profile |-> Absent, age |-> Absent] }

Present(doc, f) == doc[f].t # "absent"
Keys(doc) == {f \in Fields : Present(doc, f)}

(***************************************************************************)
(* Request payloads.  Data is the raw JSON text of write_data: absent,      *)
(* not well-formed, or the text of a JSON value.  json.Unmarshal turns a    *)
(* well-formed text into the value it denotes and fails on the rest.        *)
(***************************************************************************)
JsonForms == {"object", "array", "string", "number", "true", "false", "null"}

Raw(form, docs) == [form |-> form, docs |-> docs]
NoData == Raw("nil", <<>>)
\* a payload field that is present and holds no bytes
EmptyData == Raw("empty", <<>>)

\* len(input.Data): only whether the payload holds any bytes matters
DataLen(raw) == IF raw.form \in {"nil", "empty"} THEN 0 ELSE 1

SeqsUpTo(S, n) == UNION { [1..m -> S] : m \in 0..n }

ObjectData == { Raw("object", <<d>>) : d \in PayloadDocs }
ArrayData == { Raw("array", ds) : ds \in SeqsUpTo(ArrayDocs, MaxBatch) }
OtherData ==
  { NoData, EmptyData, Raw("malformed", <<>>), Raw("string", <<>>), Raw("null", <<>>),
    Raw("number", <<>>), Raw("true", <<>>), Raw("false", <<>>) }

UnmarshalLenient(raw) ==
  IF raw.form \in JsonForms
    THEN [ok |-> TRUE, kind |-> raw.form, docs |-> raw.docs]
    ELSE [ok |-> TRUE, kind |-> "null", docs |-> <<>>]

Unmarshal(raw) ==
  IF raw.form \in JsonForms
    THEN [ok |-> TRUE, kind |-> raw.form, docs |-> raw.docs]
    ELSE [ok |-> FALSE, kind |-> "", docs |-> <<>>]

(***************************************************************************)
(* The database engine: one collection, a function from the key code to     *)
(* the document stored under that key (NoDoc: none).                        *)
(***************************************************************************)
Stored(st) == {k \in KeyCodes : st[k] # NoDoc}

\* ReQL merge: fields of the right side win, two objects merge recursively
MergeValue(old, new) ==
  IF new.t = "absent" THEN old
  ELSE IF old.t = "object" /\ new.t = "object"
    THEN Obj([k \in SubKeys |-> IF new.o[k] # 0 THEN new.o[k] ELSE old.o[k]])
    ELSE new

Merge(old, new) == [f \in Fields |-> MergeValue(old[f], new[f])]

\* filter with an object predicate: every key of the predicate is present in
\* the document with an equal value; an object value matches sub-field-wise
MatchValue(pred, val) ==
  IF pred.t = "object" /\ val.t = "object"
    THEN \A k \in SubKeys : pred.o[k] # 0 => val.o[k] = pred.o[k]
    ELSE val = pred

FilterMatchAnyKey(pred, doc) ==
  Keys(pred) # {} => \E f \in Keys(pred) : Present(doc, f) /\ MatchValue(pred[f], doc[f])

FilterMatchNeedsKey(pred, doc) ==
  /\ Keys(pred) # {}
  /\ \A f \in Keys(pred) : Present(doc, f) /\ MatchValue(pred[f], doc[f])

FilterMatch(pred, doc) ==
  \A f \in Keys(pred) : Present(doc, f) /\ MatchValue(pred[f], doc[f])

ZeroWrite ==
  [Inserted |-> 0, Replaced |-> 0, Unchanged |-> 0, Deleted |-> 0,
   Errors |-> 0, FirstError |-> ""]

Bump(wr, field) == [wr EXCEPT ![field] = @ + 1]

Fail(wr, msg) ==
  [wr EXCEPT !.Errors = @ + 1,
             !.FirstError = IF wr.FirstError = "" THEN msg ELSE wr.FirstError]

\* the outcome of inserting one document; gen is the key the engine
\* generates when the document has no primary key
InsertOne(st, pk, doc, conflict, gen, wr) ==
  IF ~Present(doc, pk)
    THEN [store |-> [st EXCEPT ![gen] = [doc EXCEPT ![pk] = Str(gen)]],
          wr |-> Bump(wr, "Inserted")]
  ELSE LET k == doc[pk].v
           old == st[k]
       IN IF old = NoDoc
            THEN [store |-> [st EXCEPT ![k] = doc], wr |-> Bump(wr, "Inserted")]
          ELSE IF conflict = "update"
            THEN IF Merge(old, doc) = old
                   THEN [store |-> st, wr |-> Bump(wr, "Unchanged")]
                   ELSE [store |-> [st EXCEPT ![k] = Merge(old, doc)],
                         wr |-> Bump(wr, "Replaced")]
          ELSE IF conflict = "replace"
            THEN IF doc = old
                   THEN [store |-> st, wr |-> Bump(wr, "Unchanged")]
                   ELSE [store |-> [st EXCEPT ![k] = doc], wr |-> Bump(wr, "Replaced")]
          ELSE [store |-> st, wr |-> Fail(wr, "Duplicate primary key")]

RECURSIVE InsertSeq(_, _, _, _, _, _)
InsertSeq(st, pk, docs, conflict, gens, wr) ==
  IF Len(docs) = 0 THEN [store |-> st, wr |-> wr]
  ELSE LET doc == Head(docs)
           keyed == Present(doc, pk)
           r == InsertOne(st, pk, doc, conflict, IF keyed THEN 0 ELSE Head(gens), wr)
       IN InsertSeq(r.store, pk, Tail(docs), conflict,
                    IF keyed THEN gens ELSE Tail(gens), r.wr)

\* table.Insert(data, conflict): the write response and the new contents;
\* a payload that is neither a document nor an array of documents is a
\* query error
Insert(st, pk, data, conflict, gens) ==
  IF data.kind \in {"object", "array"}
    THEN LET r == InsertSeq(st, pk, data.docs, conflict, gens, ZeroWrite)
         IN [store |-> r.store, wr |-> r.wr, err |-> ""]
    ELSE [store |-> st, wr |-> ZeroWrite, err |-> "Cannot convert to OBJECT"]

\* table.Get(id).Delete()
GetDelete(st, pk, id) ==
  IF id.t # "string"
    THEN [store |-> st, wr |-> ZeroWrite, err |-> "Primary keys must be scalar"]
  ELSE IF st[id.v] = NoDoc
    THEN [store |-> st, wr |-> ZeroWrite, err |-> ""]
    ELSE [store |-> [st EXCEPT ![id.v] = NoDoc],
          wr |-> [ZeroWrite EXCEPT !.Deleted = 1], err |-> ""]

\* the documents a filter argument selects: an object is a pattern, any
\* other value is a constant predicate, true unless it is null or false
Selected(st, data) ==
  IF data.kind = "object"
    THEN {k \in Stored(st) : FilterMatch(data.docs[1], st[k])}
  ELSE IF data.kind \in {"null", "false"} THEN {}
  ELSE Stored(st)

\* table.Filter(data).Delete()
FilterDelete(st, pk, data) ==
  LET hit == Selected(st, data)
  IN [store |-> [k \in KeyCodes |-> IF k \in hit THEN NoDoc ELSE st[k]],
      wr |-> [ZeroWrite EXCEPT !.Deleted = Cardinality(hit)], err |-> ""]

\* RunWrite: a connection failure, a query error, or a write response that
\* counts errors all come back as an error beside the response read so far
RunWrite(res, fault) ==
  IF fault # "ok" THEN [wr |-> ZeroWrite, err |-> "connection failure"]
  ELSE IF res.err # "" THEN [wr |-> ZeroWrite, err |-> res.err]
  ELSE IF res.wr.Errors > 0 THEN [wr |-> res.wr, err |-> res.wr.FirstError]
  ELSE [wr |-> res.wr, err |-> ""]

(***************************************************************************)
(* Requests, responses and the record of a command's execution.             *)
(***************************************************************************)
VARIABLES
  store,       \* the collection: key code -> document
  primaryKey,  \* the name of the collection's primary-key field
  indexes,     \* the names of the collection's secondary indexes
  pre,         \* the collection before the last command
  req,         \* the last command's request
  env,         \* what the environment chose for it: faults, generated keys
  resp,        \* the last command's response
  calls,       \* the driver calls the last command issued, in order
  returned,    \* what the driver returned from each of them
  parsed,      \* whether the last command ran json.Unmarshal on its payload
  session,     \* the connection handle the handlers read
  running,     \* the commands the transport is running: slot -> progress
  locals       \* the local variables of the running handlers: frame -> values

vars == <<store, primaryKey, indexes, pre, req, env, resp, calls, returned, parsed,
          session, running, locals>>

\* a bound of a range scan: raw JSON text, absent, a number, or not
\* well-formed
Bound(form, n) == [form |-> form, v |-> n]
NoBound == Bound("nil", 0)

Request(tool, db, table) ==
  [tool |-> tool, Database |-> db, Table |-> table, Data |-> NoData,
   Operation |-> "", Filter |-> NoDoc, Limit |-> 0, OrderBy |-> "",
   Field |-> "", GroupAggregation |-> "",
   JoinField |-> "", JoinTable |-> "", Index |-> "",
   LowerBound |-> NoBound, UpperBound |-> NoBound,
   ContainsField |-> "", MapFields |-> {}, SampleSize |-> 0]

\* the value of an aggregate response: a number n/d, a document, the member
\* documents of a group, or a sequence of (group, reduction) entries
Value(kind, n, d, doc, members, groups) ==
  [kind |-> kind, n |-> n, d |-> d, doc |-> doc, members |-> members,
   groups |-> groups]
NoValue == Value("none", 0, 1, NoDoc, <<>>, <<>>)
Number(n) == Value("number", n, 1, NoDoc, <<>>, <<>>)
Ratio(n, d) == Value("number", n, d, NoDoc, <<>>, <<>>)
Document(doc) == Value("document", 0, 1, doc, <<>>, <<>>)
Members(rows) == Value("members", 0, 1, NoDoc, rows, <<>>)
Groups(entries) == Value("groups", 0, 1, NoDoc, <<>>, entries)

\* a Go slice: nil, or a sequence of items
NilSlice == [isNil |-> TRUE, items |-> <<>>]
Slice(items) == [isNil |-> FALSE, items |-> items]

\* cursor.All into a nil slice variable leaves it nil when there are no rows
DecodeAll(rows) == IF Len(rows) = 0 THEN NilSlice ELSE Slice(rows)

ZeroOutput ==
  [Database |-> "", Table |-> "", Operation |-> "",
   Inserted |-> 0, Replaced |-> 0, Unchanged |-> 0, Deleted |-> 0,
   Errors |-> 0, FirstError |-> "",
   Count |-> 0, Results |-> NilSlice,
   Field |-> "", Value |-> NoValue,
   SampleSize |-> 0, Fields |-> NilSlice,
   Databases |-> NilSlice, Tables |-> NilSlice,
   PrimaryKey |-> "", Indexes |-> NilSlice, DocCount |-> 0]

\* a driver call as the handler builds it
Call(term, db, table) ==
  [term |-> term, db |-> db, table |-> table, conflict |-> "",
   data |-> [kind |-> "", docs |-> <<>>], key |-> Absent,
   filter |-> NoDoc, orderBy |-> "", limit |-> 0,
   field |-> "", sub |-> "", index |-> "",
   lower |-> NoBound, upper |-> NoBound, joinTable |-> ""]

\* what a handler returns and does: the response, the contents of the
\* collection afterwards, the driver calls issued
Outcome(st, err, cause, out, cs, rets, didParse) ==
  [store |-> st, resp |-> [err |-> err, cause |-> cause, out |-> out],
   calls |-> cs, returned |-> rets, parsed |-> didParse]

Rejected(st, err, didParse) == Outcome(st, err, "", ZeroOutput, <<>>, <<>>, didParse)

\* what the driver returns from a call: an error or none, and for a write
\* the write response
Returned(err, wr) == [err |-> err, wr |-> wr]

\* what the first n read calls of a command return
ReadReturns(e, n) ==
  [i \in 1..n |-> Returned(IF e.faults[i] = "ok" THEN "" ELSE "driver", ZeroWrite)]

NamesMissingDatabaseOnly(input) == input.Database = ""

\* the check of the required names
NamesMissing(input) == input.Database = "" \/ input.Table = ""

\* the environment of one command: the fate of each of its driver calls
\* ("ok", "run": the call fails, "read": reading its cursor fails), the keys
\* the engine generates, the order in which a table scan yields the keys
Faults == {"ok", "run", "read"}
Environment(faults, gens, scan) == [faults |-> faults, gens |-> gens, scan |-> scan]
Quiet == Environment(<<"ok", "ok", "ok">>, <<>>, <<>>)

\* the commands the transport may run at the same time
Slots == 1..NumSlots

\* a handler's local variables as Go initialises them
ZeroLocals ==
  [rw |-> Returned("", ZeroWrite), failed |-> "", results |-> NilSlice,
   pk |-> "", names |-> NilSlice, docCount |-> 0]

\* a slot in which no command runs
Waiting ==
  [pc |-> "idle", input |-> Request("", "", ""), e |-> Quiet,
   seen |-> <<>>, after |-> <<>>,
   resp |-> [err |-> "", cause |-> "", out |-> ZeroOutput]]

\* the server is connected and no command is running
AtRest ==
  /\ session = "conn"
  /\ running = [p \in Slots |-> Waiting]
  /\ locals = [p \in Slots |-> ZeroLocals]

(***************************************************************************)
(* The engine's reads.                                                      *)
(***************************************************************************)
Databases == <<"rethinkdb", testDB>>
Tables == <<testTable>>

IsStored(doc) == doc # NoDoc

\* the documents of the collection in the order a scan yields them
ScanRows(st, scan) == SelectSeq([i \in 1..Len(scan) |-> st[scan[i]]], IsStored)

\* the sort key of a document: a document without the field sorts first
Rank(doc, f) == IF Present(doc, f) THEN doc[f].v ELSE 0

Least(S) == CHOOSE n \in S : \A m \in S : n <= m

RECURSIVE SortRanks(_, _, _)
SortRanks(rows, f, ranks) ==
  IF ranks = {} THEN <<>>
  ELSE LET r == Least(ranks)
           HasRank(doc) == Rank(doc, f) = r
       IN SelectSeq(rows, HasRank) \o SortRanks(rows, f, ranks \ {r})

\* OrderBy(field): ascending, ties in the order they arrive
OrderBy(rows, f) == SortRanks(rows, f, {Rank(rows[i], f) : i \in 1..Len(rows)})

Take(rows, n) == SubSeq(rows, 1, IF n < Len(rows) THEN n ELSE Len(rows))

RunQueryLimitFirst(st, scan, c) ==
  LET Matches(doc) == FilterMatch(c.filter, doc)
      limited == Take(SelectSeq(ScanRows(st, scan), Matches), c.limit)
  IN IF c.orderBy = "" THEN limited ELSE OrderBy(limited, c.orderBy)

\* Table.Filter(filter).OrderBy(orderBy).Limit(limit), a term being left out
\* when its argument is empty
RunQuery(st, scan, c) ==
  LET Matches(doc) == FilterMatch(c.filter, doc)
      filtered == SelectSeq(ScanRows(st, scan), Matches)
      ordered == IF c.orderBy = "" THEN filtered ELSE OrderBy(filtered, c.orderBy)
  IN Take(ordered, c.limit)

(***************************************************************************)
(* The engine's reductions.  A reduction over a field skips the documents   *)
(* that lack the field; the average and the extremes of no document are     *)
(* errors, and so is arithmetic on a value that is not a number.            *)
(***************************************************************************)
Reduced(err, value) == [err |-> err, value |-> value]

RECURSIVE SumOf(_, _)
SumOf(rows, f) ==
  IF Len(rows) = 0 THEN 0 ELSE Head(rows)[f].v + SumOf(Tail(rows), f)

Greatest(S) == CHOOSE n \in S : \A m \in S : m <= n

\* the first document, in arrival order, whose field has the rank r
Extreme(rows, f, r) ==
  LET HasRank(doc) == Rank(doc, f) = r
  IN Head(SelectSeq(rows, HasRank))

ReduceToScalars(op, rows, f) ==
  LET Has(doc) == Present(doc, f)
      have == SelectSeq(rows, Has)
      ranks == {Rank(have[i], f) : i \in 1..Len(have)}
  IN CASE op = "count" -> Reduced("", Number(Len(rows)))
       [] op = "sum" -> Reduced("", Number(SumOf(have, f)))
       [] op = "avg" ->
            IF Len(have) = 0 THEN Reduced("Cannot take the average of an empty stream", NoValue)
            ELSE Reduced("", Ratio(SumOf(have, f), Len(have)))
       [] op = "min" ->
            IF Len(have) = 0 THEN Reduced("Cannot take the min of an empty stream", NoValue)
            ELSE Reduced("", Number(Least(ranks)))
       [] OTHER ->
            IF Len(have) = 0 THEN Reduced("Cannot take the max of an empty stream", NoValue)
            ELSE Reduced("", Number(Greatest(ranks)))

\* count(), sum(f), avg(f), min(f), max(f) over a sequence of documents
Reduce(op, rows, f) ==
  LET Has(doc) == Present(doc, f)
      have == SelectSeq(rows, Has)
      numeric == \A i \in 1..Len(have) : have[i][f].t = "number"
      ranks == {Rank(have[i], f) : i \in 1..Len(have)}
  IN CASE op = "count" -> Reduced("", Number(Len(rows)))
       [] op = "sum" ->
            IF ~numeric THEN Reduced("Expected type NUMBER", NoValue)
            ELSE Reduced("", Number(SumOf(have, f)))
       [] op = "avg" ->
            IF ~numeric THEN Reduced("Expected type NUMBER", NoValue)
            ELSE IF Len(have) = 0
              THEN Reduced("Cannot take the average of an empty stream", NoValue)
            ELSE Reduced("", Ratio(SumOf(have, f), Len(have)))
       [] op = "min" ->
            IF Len(have) = 0
              THEN Reduced("Cannot take the min of an empty stream", NoValue)
              ELSE Reduced("", Document(Extreme(have, f, Least(ranks))))
       [] OTHER ->
            IF Len(have) = 0
              THEN Reduced("Cannot take the max of an empty stream", NoValue)
              ELSE Reduced("", Document(Extreme(have, f, Greatest(ranks))))

\* the sort position of a group's key: the group of the documents without
\* the field (key null) comes first
KeyRank(val) == IF val.t = "absent" THEN 0 ELSE val.v

RECURSIVE GroupEntries(_, _, _, _)
GroupEntries(rows, f, sub, keys) ==
  IF keys = {} THEN <<>>
  ELSE LET key == CHOOSE k \in keys : \A o \in keys : KeyRank(k) <= KeyRank(o)
           InGroup(doc) == doc[f] = key
           members == SelectSeq(rows, InGroup)
           red == IF sub = "" THEN Reduced("", Members(members))
                  ELSE Reduce(sub, members, f)
       IN <<[group |-> key, err |-> red.err, reduction |-> red.value]>>
            \o GroupEntries(rows, f, sub, keys \ {key})

GroupByUngrouped(rows, f, sub) ==
  LET keyed == GroupEntries(rows, f, "", {rows[i][f] : i \in 1..Len(rows)})
      red == IF sub = "" THEN Reduced("", Members(rows)) ELSE Reduce(sub, rows, f)
  IN IF red.err # "" THEN Reduced(red.err, NoValue)
     ELSE Reduced("", Groups([i \in 1..Len(keyed) |->
                                [group |-> keyed[i].group, err |-> "",
                                 reduction |-> red.value]]))

\* group(f), with the reduction sub applied to every group when one is given
GroupBy(rows, f, sub) ==
  LET entries == GroupEntries(rows, f, sub, {rows[i][f] : i \in 1..Len(rows)})
      failed == {i \in 1..Len(entries) : entries[i].err # ""}
  IN IF failed = {} THEN Reduced("", Groups(entries))
     ELSE Reduced(entries[Least(failed)].err, NoValue)

(***************************************************************************)
(* list_databases, list_tables, query_table, table_info                     *)
(***************************************************************************)
ListDatabasesRun(st, input, e) ==
  LET c == Call("dbList", "", "")
  IN IF e.faults[1] = "run"
       THEN Outcome(st, "failed to list databases", "driver", ZeroOutput, <<c>>, ReadReturns(e, 1), FALSE)
     ELSE IF e.faults[1] = "read"
       THEN Outcome(st, "failed to read databases", "driver", ZeroOutput, <<c>>, ReadReturns(e, 1), FALSE)
     ELSE Outcome(st, "", "", [ZeroOutput EXCEPT !.Databases = DecodeAll(Databases)],
                  <<c>>, ReadReturns(e, 1), FALSE)

ListTablesRun(st, input, e) ==
  IF input.Database = ""
    THEN Rejected(st, "database name is required", FALSE)
  ELSE LET c == Call("tableList", input.Database, "")
           tables == DecodeAll(Tables)
       IN IF e.faults[1] = "run"
            THEN Outcome(st, "failed to list tables", "driver", ZeroOutput, <<c>>, ReadReturns(e, 1), FALSE)
          ELSE IF e.faults[1] = "read"
            THEN Outcome(st, "failed to read tables", "driver", ZeroOutput, <<c>>, ReadReturns(e, 1), FALSE)
          ELSE Outcome(st, "", "",
                       [ZeroOutput EXCEPT
                          !.Database = input.Database,
                          !.Tables = IF tables.isNil THEN Slice(<<>>) ELSE tables],
                       <<c>>, ReadReturns(e, 1), FALSE)

ResolveLimitUncapped(limit) == IF limit <= 0 THEN DefaultLimit ELSE limit

ResolveLimit(limit) ==
  IF limit <= 0 THEN DefaultLimit
  ELSE IF limit > MaxLimit THEN MaxLimit
  ELSE limit

QueryTableRunRetry(st, input, e) ==
  IF NamesMissing(input)
    THEN Rejected(st, "database and table names are required", FALSE)
  ELSE LET c == [Call("query", input.Database, input.Table) EXCEPT
                   !.filter = input.Filter,
                   !.orderBy = input.OrderBy,
                   !.limit = ResolveLimit(input.Limit)]
           results == DecodeAll(RunQuery(st, e.scan, c))
       IN IF e.faults[1] = "run"
            THEN Outcome(st, "failed to execute query", "driver", ZeroOutput,
                         <<c, c>>, ReadReturns(e, 1) \o ReadReturns(e, 1), FALSE)
          ELSE IF e.faults[1] = "read"
            THEN Outcome(st, "", "",
                         [ZeroOutput EXCEPT
                            !.Database = input.Database, !.Table = input.Table],
                         <<c>>, ReadReturns(e, 1), FALSE)
          ELSE Outcome(st, "", "",
                       [ZeroOutput EXCEPT
                          !.Database = input.Database, !.Table = input.Table,
                          !.Count = Len(results.items), !.Results = results],
                       <<c>>, ReadReturns(e, 1), FALSE)

QueryTableRun(st, input, e) ==
  IF NamesMissing(input)
    THEN Rejected(st, "database and table names are required", FALSE)
  ELSE LET c == [Call("query", input.Database, input.Table) EXCEPT
                   !.filter = input.Filter,
                   !.orderBy = input.OrderBy,
                   !.limit = ResolveLimit(input.Limit)]
           results == DecodeAll(RunQuery(st, e.scan, c))
       IN IF e.faults[1] = "run"
            THEN Outcome(st, "failed to execute query", "driver", ZeroOutput, <<c>>, ReadReturns(e, 1), FALSE)
          ELSE IF e.faults[1] = "read"
            THEN Outcome(st, "failed to read results", "driver", ZeroOutput, <<c>>, ReadReturns(e, 1), FALSE)
          ELSE Outcome(st, "", "",
                       [ZeroOutput EXCEPT
                          !.Database = input.Database, !.Table = input.Table,
                          !.Count = Len(results.items), !.Results = results],
                       <<c>>, ReadReturns(e, 1), FALSE)

TableInfoRunStrict(st, pk, idx, input, e) ==
  IF NamesMissing(input)
    THEN Rejected(st, "database and table names are required", FALSE)
  ELSE LET info == Call("info", input.Database, input.Table)
           indexList == Call("indexList", input.Database, input.Table)
           count == Call("count", input.Database, input.Table)
       IN IF e.faults[1] # "ok"
            THEN Outcome(st, "failed to get table info", "driver", ZeroOutput,
                         <<info>>, ReadReturns(e, 1), FALSE)
          ELSE IF e.faults[2] # "ok"
            THEN Outcome(st, "failed to list indexes", "driver", ZeroOutput,
                         <<info, indexList>>, ReadReturns(e, 2), FALSE)
          ELSE IF e.faults[3] # "ok"
            THEN Outcome(st, "failed to count documents", "driver", ZeroOutput,
                         <<info, indexList, count>>, ReadReturns(e, 3), FALSE)
          ELSE Outcome(st, "", "",
                       [ZeroOutput EXCEPT
                          !.Database = input.Database, !.Table = input.Table,
                          !.PrimaryKey = pk,
                          !.Indexes = DecodeAll(idx),
                          !.DocCount = Cardinality(Stored(st))],
                       <<info, indexList, count>>, ReadReturns(e, 3), FALSE)

TableInfoRun(st, pk, idx, input, e) ==
  IF NamesMissing(input)
    THEN Rejected(st, "database and table names are required", FALSE)
  ELSE LET info == Call("info", input.Database, input.Table)
           indexList == Call("indexList", input.Database, input.Table)
           count == Call("count", input.Database, input.Table)
           \* a cursor is read only when its call succeeded
           names == IF e.faults[2] = "ok" THEN DecodeAll(idx) ELSE NilSlice
           docCount == IF e.faults[3] = "ok" THEN Cardinality(Stored(st)) ELSE 0
       IN IF e.faults[1] = "run"
            THEN Outcome(st, "failed to get table info", "driver", ZeroOutput,
                         <<info>>, ReadReturns(e, 1), FALSE)
          ELSE IF e.faults[1] = "read"
            THEN Outcome(st, "failed to read table info", "driver", ZeroOutput,
                         <<info>>, ReadReturns(e, 1), FALSE)
          ELSE Outcome(st, "", "",
                       [ZeroOutput EXCEPT
                          !.Database = input.Database, !.Table = input.Table,
                          !.PrimaryKey = pk,
                          !.Indexes = IF names.isNil THEN Slice(<<>>) ELSE names,
                          !.DocCount = docCount],
                       <<info, indexList, count>>, ReadReturns(e, 3), FALSE)

(***************************************************************************)
(* aggregate, advanced_query, schema_inspector, index_info: the request     *)
(* checks each command makes before it queries, and the read it issues.     *)
(***************************************************************************)
DefaultSampleSize == 100

AggregateOperations == {"count", "sum", "avg", "min", "max", "group"}
AdvancedOperations == {"eq_join", "between", "contains", "map"}

ReadOutput(input, st) ==
  [ZeroOutput EXCEPT
     !.Database = input.Database, !.Table = input.Table,
     !.Operation = input.Operation]

\* a command that reads: the call fails, or the response is returned
ReadOutcome(st, c, e, out, failure) ==
  IF e.faults[1] # "ok"
    THEN Outcome(st, failure, "driver", ZeroOutput, <<c>>, ReadReturns(e, 1), FALSE)
    ELSE Outcome(st, "", "", out, <<c>>, ReadReturns(e, 1), FALSE)

FieldRequiredNever(operation) == FALSE

\* the operations that need the field parameter
FieldRequired(operation) == operation # "count"

AggregateRun(st, input, e) ==
  IF input.Database = "" \/ input.Table = ""
    THEN Rejected(st, "database and table names are required", FALSE)
  ELSE IF input.Operation \notin AggregateOperations
    THEN Rejected(st, "invalid operation", FALSE)
  ELSE IF FieldRequired(input.Operation) /\ input.Field = ""
    THEN Rejected(st, "field is required", FALSE)
  ELSE LET c == [Call(input.Operation, input.Database, input.Table) EXCEPT
                   !.filter = input.Filter, !.field = input.Field,
                   !.sub = IF input.Operation = "group"
                             THEN input.GroupAggregation ELSE ""]
           Matches(doc) == FilterMatch(c.filter, doc)
           rows == SelectSeq(ScanRows(st, e.scan), Matches)
           red == IF c.term = "group" THEN GroupBy(rows, c.field, c.sub)
                  ELSE Reduce(c.term, rows, c.field)
           cause == IF e.faults[1] # "ok" THEN "driver" ELSE red.err
       IN IF cause # ""
            THEN Outcome(st, "failed to execute aggregate", cause, ZeroOutput,
                         <<c>>, <<Returned(cause, ZeroWrite)>>, FALSE)
            ELSE Outcome(st, "", "",
                         [ReadOutput(input, st) EXCEPT
                            !.Field = input.Field, !.Value = red.value],
                         <<c>>, <<Returned("", ZeroWrite)>>, FALSE)

\* the engine's order of values: every number sorts before every string
TypeRank(val) == IF val.t = "number" THEN 1 ELSE 2
Before(a, b) ==
  \/ TypeRank(a) < TypeRank(b)
  \/ TypeRank(a) = TypeRank(b) /\ a.v < b.v

InRangeClosed(val, lower, upper) ==
  /\ lower.form = "nil" \/ ~Before(val, Num(lower.v))
  /\ upper.form = "nil" \/ ~Before(Num(upper.v), val)

\* between(lower, upper) with the default bounds: closed below, open above;
\* a bound that is not supplied is the minimum / maximum value
InRange(val, lower, upper) ==
  /\ lower.form = "nil" \/ ~Before(val, Num(lower.v))
  /\ upper.form = "nil" \/ Before(val, Num(upper.v))

\* Table.Between(lower, upper, index).Limit(limit): the documents the index
\* holds (those that have the indexed field) whose value is in the range
RunBetween(st, scan, c) ==
  LET Hit(doc) ==
        Present(doc, c.index) /\ InRange(doc[c.index], c.lower, c.upper)
  IN Take(SelectSeq(ScanRows(st, scan), Hit), c.limit)

\* the documents of the target collection of the joins, in scan order
JoinRows ==
  << [id |-> Str(1), status |-> Str(1), profile |-> Absent, age |-> Absent],
     [id |-> Str(2), status |-> Str(1), profile |-> Absent, age |-> Absent] >>

RECURSIVE CrossPairs(_, _)
CrossPairs(lefts, f) ==
  IF Len(lefts) = 0 THEN <<>>
  ELSE [i \in 1..Len(JoinRows) |-> [left |-> Head(lefts), right |-> JoinRows[i]]]
         \o CrossPairs(Tail(lefts), f)

\* the rows of a join: for every source document that has the field, one row
\* for every target document with an equal value of the field
RECURSIVE JoinPairs(_, _)
JoinPairs(lefts, f) ==
  IF Len(lefts) = 0 THEN <<>>
  ELSE LET l == Head(lefts)
           Match(r) == Present(l, f) /\ Present(r, f) /\ r[f] = l[f]
           rs == SelectSeq(JoinRows, Match)
       IN [i \in 1..Len(rs) |-> [left |-> l, right |-> rs[i]]]
            \o JoinPairs(Tail(lefts), f)

RunEqJoinCross(st, scan, c) == Take(CrossPairs(ScanRows(st, scan), c.field), c.limit)

\* the equality join of the collection with the target collection, limited
RunEqJoin(st, scan, c) == Take(JoinPairs(ScanRows(st, scan), c.field), c.limit)

AdvancedQueryRun(st, idx, input, e) ==
  IF input.Database = "" \/ input.Table = ""
    THEN Rejected(st, "database and table names are required", FALSE)
  ELSE IF input.Operation \notin AdvancedOperations
    THEN Rejected(st, "invalid operation", FALSE)
  ELSE IF \/ input.Operation = "eq_join"
             /\ (input.JoinField = "" \/ input.JoinTable = "")
          \/ input.Operation = "between" /\ input.Index = ""
          \/ input.Operation = "contains" /\ input.ContainsField = ""
          \/ input.Operation = "map" /\ input.MapFields = {}
    THEN Rejected(st, "missing required parameter", FALSE)
  ELSE IF /\ input.Operation = "between"
          /\ "malformed" \in {input.LowerBound.form, input.UpperBound.form}
    THEN Rejected(st, "failed to parse bound", TRUE)
  ELSE LET c == [Call(input.Operation, input.Database, input.Table) EXCEPT
                   !.limit = ResolveLimit(input.Limit),
                   !.index = IF input.Operation = "between" THEN input.Index ELSE "",
                   !.lower = IF input.Operation = "between"
                               THEN input.LowerBound ELSE NoBound,
                   !.upper = IF input.Operation = "between"
                               THEN input.UpperBound ELSE NoBound,
                   !.field = IF input.Operation = "eq_join"
                               THEN input.JoinField ELSE "",
                   !.joinTable = IF input.Operation = "eq_join"
                                   THEN input.JoinTable ELSE ""]
           known == \E i \in 1..Len(idx) : idx[i] = c.index
           results == IF c.term = "between"
                        THEN DecodeAll(RunBetween(st, e.scan, c))
                        ELSE DecodeAll(RunEqJoin(st, e.scan, c))
       IN IF c.term \in {"between", "eq_join"}
            THEN LET cause == IF e.faults[1] # "ok" THEN "driver"
                              ELSE IF c.term = "between" /\ ~known
                                THEN "Index was not found"
                              ELSE ""
                 IN IF cause # ""
                      THEN Outcome(st, "failed to execute advanced query", cause,
                                   ZeroOutput, <<c>>, <<Returned(cause, ZeroWrite)>>,
                                   FALSE)
                      ELSE Outcome(st, "", "",
                                   [ReadOutput(input, st) EXCEPT
                                      !.Count = Len(results.items),
                                      !.Results = results],
                                   <<c>>, <<Returned("", ZeroWrite)>>, FALSE)
            ELSE ReadOutcome(st, c, e, ReadOutput(input, st),
                             "failed to execute advanced query")

\* the type label of a value
InferType(val) ==
  CASE val.t = "string" -> "string"
    [] val.t = "number" -> "number"
    [] val.t = "object" -> "object"
    [] OTHER -> "unknown"

\* the field types observed so far: field name -> type label, "" = not seen
Unobserved == [f \in Fields |-> ""]

ObserveLastWins(seen, doc) ==
  [f \in Fields |-> IF Present(doc, f) THEN InferType(doc[f]) ELSE seen[f]]

\* one sampled document: a field not yet observed gets the type of its value
Observe(seen, doc) ==
  [f \in Fields |->
     IF seen[f] = "" /\ Present(doc, f) THEN InferType(doc[f]) ELSE seen[f]]

RECURSIVE ObserveAll(_, _)
ObserveAll(rows, seen) ==
  IF Len(rows) = 0 THEN seen
  ELSE ObserveAll(Tail(rows), Observe(seen, Head(rows)))

\* the observed fields as a list of (name, type), in no particular order
RECURSIVE FieldList(_, _)
FieldList(seen, names) ==
  IF names = {} THEN <<>>
  ELSE LET f == CHOOSE n \in names : TRUE
       IN <<[name |-> f, type |-> seen[f]]>> \o FieldList(seen, names \ {f})

ResolveSampleSizeClamped(size) ==
  IF size <= 0 THEN DefaultSampleSize
  ELSE IF size > MaxLimit THEN MaxLimit
  ELSE size

ResolveSampleSize(size) == IF size <= 0 THEN DefaultSampleSize ELSE size

SchemaInspectorRun(st, pk, idx, input, e) ==
  IF input.Database = "" \/ input.Table = ""
    THEN Rejected(st, "database and table names are required", FALSE)
  ELSE LET size == ResolveSampleSize(input.SampleSize)
           c == [Call("sample", input.Database, input.Table) EXCEPT !.limit = size]
           indexList == Call("indexList", input.Database, input.Table)
           count == Call("count", input.Database, input.Table)
           seen == ObserveAll(Take(ScanRows(st, e.scan), c.limit), Unobserved)
           names == IF e.faults[2] = "ok" THEN DecodeAll(idx) ELSE NilSlice
           docCount == IF e.faults[3] = "ok" THEN Cardinality(Stored(st)) ELSE 0
       IN IF e.faults[1] # "ok"
            THEN Outcome(st, "failed to sample documents", "driver", ZeroOutput,
                         <<c>>, ReadReturns(e, 1), FALSE)
            ELSE Outcome(st, "", "",
                         [ReadOutput(input, st) EXCEPT
                            !.PrimaryKey = pk,
                            !.Indexes = IF names.isNil THEN Slice(<<>>) ELSE names,
                            !.DocCount = docCount,
                            !.SampleSize = size,
                            !.Fields = Slice(FieldList(seen, {f \in Fields : seen[f] # ""}))],
                         <<c, indexList, count>>, ReadReturns(e, 3), FALSE)

IndexInfoRun(st, idx, input, e) ==
  IF input.Database = "" \/ input.Table = ""
    THEN Rejected(st, "database and table names are required", FALSE)
  ELSE LET c == Call("indexStatus", input.Database, input.Table)
       IN ReadOutcome(st, c, e,
                      [ReadOutput(input, st) EXCEPT !.Indexes = Slice(idx)],
                      "failed to get index status")

(***************************************************************************)
(* write_data                                                               *)
(***************************************************************************)
WriteOperations == {"insert", "update", "upsert", "delete"}

ValidOperationAny(operation) == TRUE

ValidOperation(operation) == operation \in WriteOperations

DeleteCallFilterOnly(c, data) == [c EXCEPT !.term = "filterDelete", !.data = data]

DeleteCallAnyId(c, data) ==
  IF data.kind = "object" /\ Present(data.docs[1], "id")
    THEN [c EXCEPT !.term = "getDelete", !.key = data.docs[1]["id"]]
    ELSE [c EXCEPT !.term = "filterDelete", !.data = data]

DeleteCallArrayOfIds(c, data) ==
  IF data.kind = "object" /\ Present(data.docs[1], "id")
                          /\ Cardinality(Keys(data.docs[1])) = 1
    THEN [c EXCEPT !.term = "getDelete", !.key = data.docs[1]["id"]]
  ELSE IF data.kind = "array"
    THEN [c EXCEPT !.term = "getDelete", !.data = data]
    ELSE [c EXCEPT !.term = "filterDelete", !.data = data]

\* the delete branch: by primary key when the payload is an object whose
\* only key is id, by filter otherwise
DeleteCall(c, data) ==
  IF data.kind = "object"
    THEN IF Present(data.docs[1], "id") /\ Cardinality(Keys(data.docs[1])) = 1
           THEN [c EXCEPT !.term = "getDelete", !.key = data.docs[1]["id"]]
           ELSE [c EXCEPT !.term = "filterDelete", !.data = data]
    ELSE [c EXCEPT !.term = "filterDelete", !.data = data]

ConflictUpdateReplaces(operation) ==
  CASE operation = "insert" -> "error"
    [] operation = "update" -> "replace"
    [] OTHER -> "replace"

ConflictUpsertMerges(operation) ==
  CASE operation = "insert" -> "error"
    [] operation = "update" -> "update"
    [] OTHER -> "update"

\* the conflict option of the insert term each operation builds
Conflict(operation) ==
  CASE operation = "insert" -> "error"
    [] operation = "update" -> "update"
    [] OTHER -> "replace"

\* the driver call of each branch of the operation switch
WriteCall(input, operation, data) ==
  LET c == Call("insert", input.Database, input.Table)
  IN IF operation = "delete"
       THEN DeleteCall(c, data)
       ELSE [c EXCEPT !.data = data, !.conflict = Conflict(operation)]

\* the engine's execution of a write call
Execute(st, pk, c, gens) ==
  CASE c.term = "insert" -> Insert(st, pk, c.data, c.conflict, gens)
    [] c.term = "getDelete" -> GetDelete(st, pk, c.key)
    [] OTHER -> FilterDelete(st, pk, c.data)

WriteOutputWithoutUnchanged(input, operation, wr) ==
  [ZeroOutput EXCEPT
     !.Database = input.Database, !.Table = input.Table,
     !.Operation = operation,
     !.Inserted = wr.Inserted, !.Replaced = wr.Replaced,
     !.Deleted = wr.Deleted,
     !.Errors = wr.Errors, !.FirstError = wr.FirstError]

WriteOutput(input, operation, wr) ==
  [ZeroOutput EXCEPT
     !.Database = input.Database, !.Table = input.Table,
     !.Operation = operation,
     !.Inserted = wr.Inserted, !.Replaced = wr.Replaced,
     !.Unchanged = wr.Unchanged, !.Deleted = wr.Deleted,
     !.Errors = wr.Errors, !.FirstError = wr.FirstError]

WriteResultPartial(input, operation, rw) ==
  [err |-> IF rw.err # "" THEN "failed to execute " \o operation ELSE "",
   cause |-> rw.err, out |-> WriteOutput(input, operation, rw.wr)]

\* the result of the command once the driver call has returned rw
WriteResult(input, operation, rw) ==
  IF rw.err # ""
    THEN [err |-> "failed to execute " \o operation, cause |-> rw.err,
          out |-> ZeroOutput]
    ELSE [err |-> "", cause |-> "", out |-> WriteOutput(input, operation, rw.wr)]

DefaultOperationUpsert(op) == IF op = "" THEN "upsert" ELSE op

DefaultOperation(op) == IF op = "" THEN "insert" ELSE op

WriteDataRun(st, pk, input, e) ==
  IF NamesMissing(input)
    THEN Rejected(st, "database and table names are required", FALSE)
  ELSE IF DataLen(input.Data) = 0
    THEN Rejected(st, "data is required", FALSE)
  ELSE LET operation == DefaultOperation(input.Operation)
       IN IF ~ValidOperation(operation)
            THEN Rejected(st, "invalid operation", FALSE)
          ELSE LET data == Unmarshal(input.Data)
               IN IF ~data.ok
                    THEN Rejected(st, "failed to parse data", TRUE)
                  ELSE LET c == WriteCall(input, operation,
                                          [kind |-> data.kind, docs |-> data.docs])
                           res == IF e.faults[1] = "ok"
                                    THEN Execute(st, pk, c, e.gens)
                                    ELSE [store |-> st, wr |-> ZeroWrite, err |-> ""]
                           rw == RunWrite(res, e.faults[1])
                           r == WriteResult(input, operation, rw)
                       IN Outcome(res.store, r.err, r.cause, r.out,
                                  <<c>>, <<Returned(rw.err, rw.wr)>>, TRUE)

\* the documents of a payload that carry no primary key
Keyless(pk, raw) == {i \in 1..Len(raw.docs) : ~Present(raw.docs[i], pk)}

\* the keys the engine may generate for them: distinct, not stored, and not
\* named in the payload itself
GeneratedKeys(st, pk, raw) ==
  LET named == {raw.docs[i][pk].v : i \in (1..Len(raw.docs)) \ Keyless(pk, raw)}
      free == KeyCodes \ (Stored(st) \cup named)
      n == Cardinality(Keyless(pk, raw))
  IN {g \in [1..n -> free] : \A i, j \in 1..n : i # j => g[i] # g[j]}

Names == {<<testDB, testTable>>, <<"", testTable>>, <<testDB, "">>, <<"", "">>}

WriteOperationInputs == WriteOperations \cup {"", "drop_table"}

\* the payloads tried with a failing connection and with missing names
ProbeData ==
  { NoData, Raw("malformed", <<>>), Raw("string", <<>>),
    Raw("object", <<[id |-> Str(1), status |-> Str(1), profile |-> Absent,
                     age |-> Absent]>>) }

WriteInput(names, data, op) ==
  [Request("write_data", names[1], names[2]) EXCEPT !.Data = data, !.Operation = op]

\* the layer keeps nothing between commands: a command starts when none is
\* in progress
Idle == req.tool = ""

Do(input, e, out) ==
  /\ pre' = store
  /\ req' = input
  /\ env' = e
  /\ store' = out.store
  /\ resp' = out.resp
  /\ calls' = out.calls
  /\ returned' = out.returned
  /\ parsed' = out.parsed
  /\ UNCHANGED <<primaryKey, indexes, session, running, locals>>

WriteData ==
  /\ Idle
  /\ \E names \in Names, op \in WriteOperationInputs, fault \in {"ok", "run"} :
    \E data \in IF names = <<testDB, testTable>> /\ fault = "ok"
                  THEN ObjectData \cup ArrayData \cup OtherData
                  ELSE ProbeData :
      \E gens \in IF op = "delete" THEN {<<>>}
                   ELSE GeneratedKeys(store, primaryKey, data) :
        LET input == WriteInput(names, data, op)
            e == Environment(<<fault, "ok", "ok">>, gens, <<>>)
        IN Do(input, e, WriteDataRun(store, primaryKey, input, e))

ListDatabases ==
  /\ Idle
  /\ \E fault \in Faults :
       LET input == Request("list_databases", "", "")
           e == Environment(<<fault, "ok", "ok">>, <<>>, <<>>)
       IN Do(input, e, ListDatabasesRun(store, input, e))

ListTables ==
  /\ Idle
  /\ \E db \in {"", testDB}, fault \in Faults :
       LET input == Request("list_tables", db, "")
           e == Environment(<<fault, "ok", "ok">>, <<>>, <<>>)
       IN Do(input, e, ListTablesRun(store, input, e))

\* the orders in which a scan of the collection can yield its keys
Scans == {s \in [1..NumKeys -> KeyCodes] : \A i, j \in 1..NumKeys : i # j => s[i] # s[j]}

Limits == {-1, 0, 1, 2, MaxLimit, MaxLimit + 1, 5 * MaxLimit}

QueryFilters ==
  { NoDoc,
    [NoDoc EXCEPT !["status"] = Str(1)],
    [NoDoc EXCEPT !["profile"] = Obj([x |-> 1, y |-> 0])],
    [NoDoc EXCEPT !["status"] = Str(1), !["profile"] = Obj([x |-> 0, y |-> 1])] }

\* every query is tried against a working connection; a failing connection
\* and missing names are tried with every limit
QueryTable ==
  /\ Idle
  /\ \E names \in Names, fault \in Faults, limit \in Limits :
      LET full == names = <<testDB, testTable>> /\ fault = "ok"
      IN \E filter \in IF full THEN QueryFilters ELSE {NoDoc},
            orderBy \in IF full THEN {"", "status"} ELSE {""},
            scan \in IF full THEN Scans ELSE {[i \in 1..NumKeys |-> i]} :
           LET input == [Request("query_table", names[1], names[2]) EXCEPT
                           !.Filter = filter, !.Limit = limit, !.OrderBy = orderBy]
               e == Environment(<<fault, "ok", "ok">>, <<>>, scan)
           IN Do(input, e, QueryTableRun(store, input, e))

TableInfo ==
  /\ Idle
  /\ \E names \in Names, faults \in [1..3 -> Faults] :
       LET input == Request("table_info", names[1], names[2])
           e == Environment(faults, <<>>, <<>>)
       IN Do(input, e, TableInfoRun(store, primaryKey, indexes, input, e))

GroupAggregations == {"count", "sum", "avg", "min", "max"}

\* every aggregation is tried against a working connection; a failing
\* connection and missing names are tried with every operation
Aggregate ==
  /\ Idle
  /\ \E names \in Names, op \in AggregateOperations \cup {"", "invalid_op"},
        fault \in {"ok", "run"} :
      LET full == names = <<testDB, testTable>> /\ fault = "ok"
      IN \E field \in IF full THEN {"", "status", "age"} ELSE {"", "age"},
            filter \in IF full THEN {NoDoc, [NoDoc EXCEPT !["status"] = Str(1)]}
                               ELSE {NoDoc},
            sub \in IF full /\ op = "group" THEN GroupAggregations \cup {""} ELSE {""},
            scan \in IF full THEN Scans ELSE {[i \in 1..NumKeys |-> i]} :
           LET input == [Request("aggregate", names[1], names[2]) EXCEPT
                           !.Operation = op, !.Field = field, !.Filter = filter,
                           !.GroupAggregation = sub]
               e == Environment(<<fault, "ok", "ok">>, <<>>, scan)
           IN Do(input, e, AggregateRun(store, input, e))

\* the bounds of the range scans tried: none, a number, unparsable text
Bounds ==
  {NoBound, Bound("malformed", 0)} \cup {Bound("number", n) : n \in {2, 4, 5}}

\* every range scan is tried against a working connection; a failing
\* connection, missing names and missing parameters are tried with every
\* operation
AdvancedQuery ==
  /\ Idle
  /\ \E names \in Names, op \in AdvancedOperations \cup {"", "foobar"},
        given \in BOOLEAN, fault \in {"ok", "run"} :
      LET reach == names = <<testDB, testTable>> /\ fault = "ok"
          full == reach /\ op = "between" /\ given
          join == reach /\ op = "eq_join"
      IN \E lower \in IF full THEN Bounds ELSE {NoBound},
            upper \in IF full THEN Bounds ELSE {NoBound},
            limit \in IF full \/ (join /\ given) THEN {0, 1} ELSE {0},
            scan \in IF full \/ (join /\ given) THEN Scans ELSE {[i \in 1..NumKeys |-> i]},
            joinField \in IF join THEN (IF given THEN {"id", "status"} ELSE {"", "id"})
                          ELSE {IF given THEN "id" ELSE ""},
            joinTable \in IF join /\ ~given THEN {"", testJoinTable}
                          ELSE {IF given THEN testJoinTable ELSE ""} :
           LET input == [Request("advanced_query", names[1], names[2]) EXCEPT
                           !.Operation = op,
                           !.JoinField = joinField,
                           !.JoinTable = joinTable,
                           !.Index = IF given THEN "age" ELSE "",
                           !.LowerBound = lower, !.UpperBound = upper,
                           !.Limit = limit,
                           !.ContainsField = IF given THEN "profile" ELSE "",
                           !.MapFields = IF given THEN {"status"} ELSE {}]
               e == Environment(<<fault, "ok", "ok">>, <<>>, scan)
           IN Do(input, e, AdvancedQueryRun(store, indexes, input, e))

SampleSizes == {-1, 0, 1, 2, 5 * MaxLimit}

\* every sample size is tried with every scan order against a working
\* connection; failing lookups and missing names with a few sizes
SchemaInspector ==
  /\ Idle
  /\ \E names \in Names, faults \in [1..3 -> {"ok", "run"}] :
      LET full == names = <<testDB, testTable>> /\ faults[1] = "ok"
      IN \E size \in IF full THEN SampleSizes ELSE {0, 1},
            scan \in IF full THEN Scans ELSE {[i \in 1..NumKeys |-> i]} :
           LET input == [Request("schema_inspector", names[1], names[2]) EXCEPT
                           !.SampleSize = size]
               e == Environment(faults, <<>>, scan)
           IN Do(input, e, SchemaInspectorRun(store, primaryKey, indexes, input, e))

IndexInfo ==
  /\ Idle
  /\ \E names \in Names, fault \in {"ok", "run"} :
       LET input == Request("index_info", names[1], names[2])
           e == Environment(<<fault, "ok", "ok">>, <<>>, <<>>)
       IN Do(input, e, IndexInfoRun(store, indexes, input, e))

Init ==
  /\ store = [k \in KeyCodes |-> NoDoc]
  /\ primaryKey = "id"
  /\ indexes \in {<<>>, <<"status">>}
  /\ pre = store
  /\ req = Request("", "", "")
  /\ env = Quiet
  /\ resp = [err |-> "", cause |-> "", out |-> ZeroOutput]
  /\ calls = <<>>
  /\ returned = <<>>
  /\ parsed = FALSE
  /\ AtRest

\* the response is handed to the caller and the command's data is discarded
Respond ==
  /\ ~Idle
  /\ pre' = store
  /\ req' = Request("", "", "")
  /\ env' = Quiet
  /\ resp' = [err |-> "", cause |-> "", out |-> ZeroOutput]
  /\ calls' = <<>>
  /\ returned' = <<>>
  /\ parsed' = FALSE
  /\ UNCHANGED <<store, primaryKey, indexes, session, running, locals>>

Next ==
  \/ ListDatabases
  \/ ListTables
  \/ QueryTable
  \/ TableInfo
  \/ WriteData
  \/ Aggregate
  \/ AdvancedQuery
  \/ SchemaInspector
  \/ IndexInfo
  \/ Respond

Spec == Init /\ [][Next]_vars

(***************************************************************************)
(* The package-level handlers of the four-tool main.go, which read the      *)
(* package variable session where the methods read s.session.               *)
(***************************************************************************)
listDatabases(st, input, e) ==
  LET c == Call("dbList", "", "")
      databases == DecodeAll(Databases)
  IN IF e.faults[1] = "run"
       THEN Outcome(st, "failed to list databases", "driver", ZeroOutput,
                    <<c>>, ReadReturns(e, 1), FALSE)
     ELSE IF e.faults[1] = "read"
       THEN Outcome(st, "failed to read databases", "driver", ZeroOutput,
                    <<c>>, ReadReturns(e, 1), FALSE)
     ELSE Outcome(st, "", "", [ZeroOutput EXCEPT !.Databases = databases],
                  <<c>>, ReadReturns(e, 1), FALSE)

listTables(st, input, e) ==
  IF input.Database = ""
    THEN Rejected(st, "database name is required", FALSE)
  ELSE LET c == Call("tableList", input.Database, "")
           tables == DecodeAll(Tables)
       IN IF e.faults[1] = "run"
            THEN Outcome(st, "failed to list tables", "driver", ZeroOutput,
                         <<c>>, ReadReturns(e, 1), FALSE)
          ELSE IF e.faults[1] = "read"
            THEN Outcome(st, "failed to read tables", "driver", ZeroOutput,
                         <<c>>, ReadReturns(e, 1), FALSE)
          ELSE Outcome(st, "", "",
                       [ZeroOutput EXCEPT
                          !.Database = input.Database,
                          !.Tables = IF tables.isNil THEN Slice(<<>>) ELSE tables],
                       <<c>>, ReadReturns(e, 1), FALSE)

queryTable(st, input, e) ==
  IF input.Database = "" \/ input.Table = ""
    THEN Rejected(st, "database and table names are required", FALSE)
  ELSE LET limit == IF input.Limit <= 0 THEN 100
                    ELSE IF input.Limit > 1000 THEN 1000 ELSE input.Limit
           \* input.Filter != nil && len(input.Filter) > 0
           filtered == input.Filter # NoDoc /\ Cardinality(Keys(input.Filter)) > 0
           c == [Call("query", input.Database, input.Table) EXCEPT
                   !.filter = IF filtered THEN input.Filter ELSE NoDoc,
                   !.orderBy = input.OrderBy,
                   !.limit = limit]
           results == DecodeAll(RunQuery(st, e.scan, c))
       IN IF e.faults[1] = "run"
            THEN Outcome(st, "failed to execute query", "driver", ZeroOutput,
                         <<c>>, ReadReturns(e, 1), FALSE)
          ELSE IF e.faults[1] = "read"
            THEN Outcome(st, "failed to read results", "driver", ZeroOutput,
                         <<c>>, ReadReturns(e, 1), FALSE)
          ELSE Outcome(st, "", "",
                       [ZeroOutput EXCEPT
                          !.Database = input.Database, !.Table = input.Table,
                          !.Count = Len(results.items), !.Results = results],
                       <<c>>, ReadReturns(e, 1), FALSE)

tableInfo(st, pk, idx, input, e) ==
  IF input.Database = "" \/ input.Table = ""
    THEN Rejected(st, "database and table names are required", FALSE)
  ELSE LET info == Call("info", input.Database, input.Table)
           indexList == Call("indexList", input.Database, input.Table)
           count == Call("count", input.Database, input.Table)
           names == IF e.faults[2] = "ok" THEN DecodeAll(idx) ELSE NilSlice
           docCount == IF e.faults[3] = "ok" THEN Cardinality(Stored(st)) ELSE 0
       IN IF e.faults[1] = "run"
            THEN Outcome(st, "failed to get table info", "driver", ZeroOutput,
                         <<info>>, ReadReturns(e, 1), FALSE)
          ELSE IF e.faults[1] = "read"
            THEN Outcome(st, "failed to read table info", "driver", ZeroOutput,
                         <<info>>, ReadReturns(e, 1), FALSE)
          ELSE Outcome(st, "", "",
                       [ZeroOutput EXCEPT
                          !.Database = input.Database, !.Table = input.Table,
                          !.PrimaryKey = pk,
                          !.Indexes = IF names.isNil THEN Slice(<<>>) ELSE names,
                          !.DocCount = docCount],
                       <<info, indexList, count>>, ReadReturns(e, 3), FALSE)

(***************************************************************************)
(* The four-tool server (the main.go variant without server/): it registers *)
(* list_databases, list_tables, query_table and table_info, whose handlers   *)
(* are the same code as the methods above, and is started against a          *)
(* database that already holds data.                                         *)
(***************************************************************************)
\* the contents a collection may have when the server connects
SeededStores ==
  {st \in [KeyCodes -> PayloadDocs \cup {NoDoc}] :
     \A k \in KeyCodes : st[k] # NoDoc => st[k]["id"] = Str(k)}

ReadOnlyInit ==
  /\ store \in SeededStores
  /\ primaryKey = "id"
  /\ indexes \in {<<>>, <<"status">>}
  /\ pre = store
  /\ req = Request("", "", "")
  /\ env = Quiet
  /\ resp = [err |-> "", cause |-> "", out |-> ZeroOutput]
  /\ calls = <<>>
  /\ returned = <<>>
  /\ parsed = FALSE
  /\ AtRest

RegisteredWithWriteData ==
  \/ ListDatabases
  \/ ListTables
  \/ QueryTable
  \/ TableInfo
  \/ WriteData
  \/ Respond

ReadOnlyNext ==
  \/ ListDatabases
  \/ ListTables
  \/ QueryTable
  \/ TableInfo
  \/ Respond

ReadOnlySpec == ReadOnlyInit /\ [][ReadOnlyNext]_vars

(***************************************************************************)
(* The server over a collection that has been seeded with documents that    *)
(* carry a number (age) and a category (status), answering the commands     *)
(* that read it: aggregate, advanced_query, schema_inspector, index_info.    *)
(***************************************************************************)
AgeVals == {Absent, Num(2), Num(4)}

\* documents in which one field name holds values of different types
MixedDocs ==
  {[id |-> i, status |-> s, profile |-> p, age |-> Absent] :
     i \in {Str(k) : k \in KeyCodes}, s \in {Absent, Str(1)},
     p \in {Obj([x |-> 1, y |-> 0]), Str(1)}}

AgedStores ==
  {st \in [KeyCodes -> {[id |-> i, status |-> s, profile |-> Absent, age |-> a] :
                          i \in {Str(k) : k \in KeyCodes}, s \in StatusVals,
                          a \in AgeVals} \cup MixedDocs \cup {NoDoc}] :
     \A k \in KeyCodes : st[k] # NoDoc => st[k]["id"] = Str(k)}

SeededInit ==
  /\ store \in AgedStores
  /\ primaryKey = "id"
  /\ indexes \in {<<"status">>, <<"age", "status">>}
  /\ pre = store
  /\ req = Request("", "", "")
  /\ env = Quiet
  /\ resp = [err |-> "", cause |-> "", out |-> ZeroOutput]
  /\ calls = <<>>
  /\ returned = <<>>
  /\ parsed = FALSE
  /\ AtRest

SeededNext ==
  \/ Aggregate
  \/ AdvancedQuery
  \/ SchemaInspector
  \/ IndexInfo
  \/ Respond

SeededSpec == SeededInit /\ [][SeededNext]_vars

(***************************************************************************)
(* The server over a collection whose primary key is not the field id: the  *)
(* table's primary_key is a property of the table, and the handlers never   *)
(* read it before a write.  Documents are stored under their status.        *)
(***************************************************************************)
OtherPrimaryKey == "status"

KeyedInit ==
  /\ store = [k \in KeyCodes |-> NoDoc]
  /\ primaryKey = OtherPrimaryKey
  /\ indexes = <<>>
  /\ pre = store
  /\ req = Request("", "", "")
  /\ env = Quiet
  /\ resp = [err |-> "", cause |-> "", out |-> ZeroOutput]
  /\ calls = <<>>
  /\ returned = <<>>
  /\ parsed = FALSE
  /\ AtRest

KeyedNext ==
  \/ WriteData
  \/ Respond

KeyedSpec == KeyedInit /\ [][KeyedNext]_vars

(***************************************************************************)
(* Commands run concurrently.  The transport calls a handler for each       *)
(* command on a goroutine of its own; a handler's driver calls are each     *)
(* atomic at the database, and the steps between them (building the call,   *)
(* checking err, shaping the output) touch the handler's local variables.   *)
(* The session handle is assigned once, before the transport starts.        *)
(***************************************************************************)
FrameShared(p) == 1

\* the frame that holds the local variables of the handler run in slot p:
\* every invocation has a frame of its own
Frame(p) == p

Last(seq) == seq[Len(seq)]

\* driver call i of a handler against the collection st: the collection
\* afterwards, the handler's locals afterwards, and whether the handler goes
\* on to return
CallStep(input, i, st, pk, idx, e, loc) ==
  IF input.tool = "write_data"
    THEN LET operation == DefaultOperation(input.Operation)
             data == Unmarshal(input.Data)
             c == WriteCall(input, operation, [kind |-> data.kind, docs |-> data.docs])
             res == IF e.faults[1] = "ok"
                      THEN Execute(st, pk, c, e.gens)
                      ELSE [store |-> st, wr |-> ZeroWrite, err |-> ""]
             rw == RunWrite(res, e.faults[1])
         IN [store |-> res.store, stop |-> TRUE,
             loc |-> [loc EXCEPT !.rw = Returned(rw.err, rw.wr)]]
  ELSE IF input.tool = "query_table"
    THEN LET c == [Call("query", input.Database, input.Table) EXCEPT
                     !.filter = input.Filter, !.orderBy = input.OrderBy,
                     !.limit = ResolveLimit(input.Limit)]
         IN [store |-> st, stop |-> TRUE,
             loc |-> IF e.faults[1] = "run"
                       THEN [loc EXCEPT !.failed = "failed to execute query"]
                     ELSE IF e.faults[1] = "read"
                       THEN [loc EXCEPT !.failed = "failed to read results"]
                     ELSE [loc EXCEPT !.results = DecodeAll(RunQuery(st, e.scan, c))]]
  ELSE IF i = 1
    THEN [store |-> st, stop |-> e.faults[1] # "ok",
          loc |-> IF e.faults[1] = "run"
                    THEN [loc EXCEPT !.failed = "failed to get table info"]
                  ELSE IF e.faults[1] = "read"
                    THEN [loc EXCEPT !.failed = "failed to read table info"]
                  ELSE [loc EXCEPT !.pk = pk]]
  ELSE IF i = 2
    THEN [store |-> st, stop |-> FALSE,
          loc |-> IF e.faults[2] = "ok"
                    THEN [loc EXCEPT !.names = DecodeAll(idx)] ELSE loc]
  ELSE [store |-> st, stop |-> TRUE,
        loc |-> IF e.faults[3] = "ok"
                  THEN [loc EXCEPT !.docCount = Cardinality(Stored(st))] ELSE loc]

\* the response a handler builds from its locals once its calls are done
Shape(input, loc) ==
  IF input.tool = "write_data"
    THEN WriteResult(input, DefaultOperation(input.Operation),
                     [wr |-> loc.rw.wr, err |-> loc.rw.err])
  ELSE IF loc.failed # ""
    THEN [err |-> loc.failed, cause |-> "driver", out |-> ZeroOutput]
  ELSE IF input.tool = "query_table"
    THEN [err |-> "", cause |-> "",
          out |-> [ZeroOutput EXCEPT
                     !.Database = input.Database, !.Table = input.Table,
                     !.Count = Len(loc.results.items), !.Results = loc.results]]
  ELSE [err |-> "", cause |-> "",
        out |-> [ZeroOutput EXCEPT
                   !.Database = input.Database, !.Table = input.Table,
                   !.PrimaryKey = loc.pk,
                   !.Indexes = IF loc.names.isNil THEN Slice(<<>>) ELSE loc.names,
                   !.DocCount = loc.docCount]]

KeyedDoc(k, s) == [NoDoc EXCEPT !["id"] = Str(k), !["status"] = Str(s)]

\* the commands run side by side: writes of documents that name their key,
\* deletes, queries and table_info, with the faults of each
ConcurrentCommands ==
  { <<WriteInput(<<testDB, testTable>>, Raw("object", <<d>>), op), Quiet>> :
      d \in {KeyedDoc(1, 1), KeyedDoc(2, 1)}, op \in {"insert"} }
  \cup
  { <<WriteInput(<<testDB, testTable>>, Raw("object", <<KeyedDoc(1, 2)>>), "update"),
      Environment(<<f, "ok", "ok">>, <<>>, <<>>)>> : f \in {"ok", "run"} }
  \cup
  { <<WriteInput(<<testDB, testTable>>, Raw("object", <<d>>), "delete"), Quiet>> :
      d \in {NoDoc} }
  \cup
  { <<[Request("query_table", testDB, testTable) EXCEPT !.Filter = flt],
      Environment(<<f, "ok", "ok">>, <<>>, [i \in 1..NumKeys |-> i])>> :
      flt \in {NoDoc, [NoDoc EXCEPT !["status"] = Str(1)]},
      f \in {"ok", "read"} }
  \cup
  { <<Request("table_info", testDB, testTable), Environment(fs, <<>>, <<>>)>> :
      fs \in {<<"ok", "ok", "ok">>, <<"run", "ok", "ok">>,
              <<"ok", "run", "ok">>, <<"ok", "ok", "run">>} }

ConcurrentInit ==
  /\ store = [k \in KeyCodes |-> NoDoc]
  /\ primaryKey = "id"
  /\ indexes = <<"status">>
  /\ pre = store
  /\ req = Request("", "", "")
  /\ env = Quiet
  /\ resp = [err |-> "", cause |-> "", out |-> ZeroOutput]
  /\ calls = <<>>
  /\ returned = <<>>
  /\ parsed = FALSE
  /\ session = "nil"
  /\ running = [p \in Slots |-> Waiting]
  /\ locals = [p \in Slots |-> ZeroLocals]

sequential == <<primaryKey, indexes, pre, req, env, resp, calls, returned, parsed>>

\* the connection is opened and the handle is stored
Connect ==
  /\ session = "nil"
  /\ session' = "conn"
  /\ UNCHANGED <<store, running, locals>>
  /\ UNCHANGED sequential

\* the transport dispatches a command to its handler
Start(p) ==
  /\ session # "nil"
  /\ running[p].pc = "idle"
  /\ \E cmd \in ConcurrentCommands :
       running' = [running EXCEPT ![p] = [Waiting EXCEPT !.pc = "calls",
                                                        !.input = cmd[1],
                                                        !.e = cmd[2]]]
  /\ locals' = [locals EXCEPT ![Frame(p)] = ZeroLocals]
  /\ UNCHANGED <<store, session>>
  /\ UNCHANGED sequential

\* the handler of slot p issues its next driver call
Step(p) ==
  /\ running[p].pc = "calls"
  /\ LET run == running[p]
         r == CallStep(run.input, Len(run.seen) + 1, store, primaryKey, indexes,
                       run.e, locals[Frame(p)])
     IN /\ store' = r.store
        /\ locals' = [locals EXCEPT ![Frame(p)] = r.loc]
        /\ running' = [running EXCEPT ![p] =
                         [run EXCEPT !.seen = Append(run.seen, store),
                                     !.after = Append(run.after, r.store),
                                     !.pc = IF r.stop THEN "shape" ELSE "calls"]]
  /\ UNCHANGED session
  /\ UNCHANGED sequential

\* the handler checks err and builds its output
Finish(p) ==
  /\ running[p].pc = "shape"
  /\ running' = [running EXCEPT ![p] =
                   [running[p] EXCEPT !.pc = "done",
                                      !.resp = Shape(running[p].input, locals[Frame(p)])]]
  /\ UNCHANGED <<store, session, locals>>
  /\ UNCHANGED sequential

\* the response is handed to the transport and the handler's frame is gone
Return(p) ==
  /\ running[p].pc = "done"
  /\ running' = [running EXCEPT ![p] = Waiting]
  /\ locals' = [locals EXCEPT ![Frame(p)] = ZeroLocals]
  /\ UNCHANGED <<store, session>>
  /\ UNCHANGED sequential

ConcurrentNext ==
  \/ Connect
  \/ \E p \in Slots : Start(p)
  \/ \E p \in Slots : Step(p)
  \/ \E p \in Slots : Finish(p)
  \/ \E p \in Slots : Return(p)

ConcurrentSpec == ConcurrentInit /\ [][ConcurrentNext]_vars

(***************************************************************************)
(* Properties.  Each speaks of the command that has just run: req is its    *)
(* request, pre the collection before it, store the collection after it.    *)
(***************************************************************************)
Ran(tool) == req.tool = tool
Named == req.Database # "" /\ req.Table # ""
Connected == env.faults[1] = "ok"

\* the single document of an object payload
Payload == req.Data.docs[1]
ObjectPayload == req.Data.form = "object"

\* C1: for every limit L passed to query_table the limit applied to the query
\* is 100 when L <= 0, L when 1 <= L <= 1000 and 1000 when L > 1000, and
\* clamping never produces an error.
C1_LimitClamped ==
  (Ran("query_table") /\ Named) =>
    /\ Len(calls) = 1
    /\ calls[1].term = "query"
    /\ calls[1].limit = (IF req.Limit <= 0 THEN 100
                         ELSE IF req.Limit <= 1000 THEN req.Limit ELSE 1000)
    /\ Connected => (resp.err = "" /\ resp.out.Count <= calls[1].limit)

C1_Witness ==
  /\ Ran("query_table") /\ Named /\ Connected
  /\ req.Limit > 1000
  /\ calls[1].limit = 1000
  /\ resp.err = ""
  /\ resp.out.Count = 2

\* C2: every command that takes a namespace/collection returns an error and
\* issues no driver call when the database is empty (list_tables) or the
\* database or the table is empty (the other commands); the collection is
\* unchanged.
NamedTools ==
  {"query_table", "table_info", "write_data", "aggregate", "advanced_query",
   "schema_inspector", "index_info"}

C2_EmptyNamesRejected ==
  (\/ Ran("list_tables") /\ req.Database = ""
   \/ req.tool \in NamedTools /\ ~Named) =>
    /\ resp.err # ""
    /\ resp.out = ZeroOutput
    /\ Len(calls) = 0
    /\ store = pre

C2_Witness ==
  /\ Ran("write_data") /\ req.Database # "" /\ req.Table = ""
  /\ req.Operation = "delete" /\ ObjectPayload
  /\ Stored(pre) # {}
  /\ resp.err # "" /\ Len(calls) = 0 /\ store = pre

\* the stored documents whose primary key has the value v
WithKey(st, v) == {k \in Stored(st) : st[k][primaryKey] = v}

\* C3: write_data(delete) with a payload {id: v} performs a point delete: it
\* removes at most one document, the one whose primary key equals v, reports
\* deleted = 1 when that document existed (and the driver call succeeded),
\* and leaves every other document unchanged.
PointDeleteRequest ==
  /\ Ran("write_data") /\ Named /\ req.Operation = "delete"
  /\ ObjectPayload /\ Keys(Payload) = {"id"}

C3_PointDelete ==
  PointDeleteRequest =>
    LET target == WithKey(pre, Payload["id"])
    IN /\ Len(calls) = 1
       /\ calls[1].term = "getDelete" /\ calls[1].key = Payload["id"]
       /\ Cardinality(target) <= 1
       /\ \A k \in KeyCodes \ target : store[k] = pre[k]
       /\ Connected =>
            /\ resp.err = ""
            /\ \A k \in target : store[k] = NoDoc
            /\ resp.out.Deleted = Cardinality(target)
       /\ ~Connected => store = pre

C3_Witness ==
  /\ PointDeleteRequest /\ Connected
  /\ Cardinality(Stored(pre)) = 2
  /\ Cardinality(Stored(store)) = 1
  /\ resp.out.Deleted = 1

\* a document has a field with the payload's value, an object being matched
\* by an object that holds each of its sub-fields with the same value
Holds(val, pat) ==
  \/ val = pat
  \/ /\ val.t = "object" /\ pat.t = "object"
     /\ \A k \in SubKeys : pat.o[k] # 0 => val.o[k] = pat.o[k]

FilterDeleteRequest ==
  /\ Ran("write_data") /\ Named /\ req.Operation = "delete"
  /\ ObjectPayload /\ Keys(Payload) # {"id"}

Without(st, keys) == [k \in KeyCodes |-> IF k \in keys THEN NoDoc ELSE st[k]]

\* C4 as stated: write_data(delete) with an object payload other than {id: v}
\* removes exactly the documents that equal the payload on every one of its
\* keys, deleted is their number, the other documents are unchanged.
C4_DeletesEqualDocuments ==
  (FilterDeleteRequest /\ Connected) =>
    LET equal == {k \in Stored(pre) : \A f \in Keys(Payload) : pre[k][f] = Payload[f]}
    IN /\ resp.err = ""
       /\ store = Without(pre, equal)
       /\ resp.out.Deleted = Cardinality(equal)

\* C4 as amended: write_data(delete) with an object payload other than
\* {id: v} issues a filter delete that removes exactly the documents matching
\* the payload on every one of its keys, a key whose payload value is an
\* object being matched by every stored object that holds the payload's
\* sub-fields with equal values; deleted is their number and the other
\* documents are unchanged.
C4_BulkDelete ==
  FilterDeleteRequest =>
    LET match == {k \in Stored(pre) :
                    \A f \in Keys(Payload) : Holds(pre[k][f], Payload[f])}
    IN /\ Len(calls) = 1
       /\ calls[1].term = "filterDelete"
       /\ Connected =>
            /\ resp.err = ""
            /\ store = Without(pre, match)
            /\ resp.out.Deleted = Cardinality(match)
       /\ ~Connected => store = pre

C4_Witness ==
  /\ FilterDeleteRequest /\ Connected
  /\ Present(Payload, "id") /\ Present(Payload, "profile")
  /\ resp.out.Deleted = 1
  /\ Cardinality(Stored(store)) = 1
  /\ \E k \in Stored(pre) \ Stored(store) : pre[k]["profile"] # Payload["profile"]

\* a write of one document whose primary key names a stored document
KeyedPayload == ObjectPayload /\ Present(Payload, primaryKey)
Target == Payload[primaryKey].v
OnExisting(operation) ==
  /\ Ran("write_data") /\ Named /\ req.Operation = operation
  /\ KeyedPayload /\ pre[Target] # NoDoc

OthersUnchanged == \A k \in KeyCodes \ {Target} : store[k] = pre[k]

\* C5 as stated: write_data(update) on an existing document leaves every
\* payload field with the payload's value and every other stored field with
\* its previous value.
C5_PayloadFieldsOverwrite ==
  (OnExisting("update") /\ Connected) =>
    /\ resp.err = ""
    /\ \A f \in Fields :
         store[Target][f] = IF Present(Payload, f) THEN Payload[f] ELSE pre[Target][f]

\* C5 as amended: write_data(update) on an existing document merges the
\* payload into it: a stored field not present in the payload keeps its
\* value; a payload field has the payload's value, except that where the
\* stored value and the payload's value are both objects the field holds the
\* stored object with the payload's sub-fields written over it.
C5_UpdateMerges ==
  (OnExisting("update") /\ Connected) =>
    /\ resp.err = ""
    /\ OthersUnchanged
    /\ \A f \in Fields :
         LET old == pre[Target][f]
             new == Payload[f]
             now == store[Target][f]
         IN IF new.t = "absent" THEN now = old
            ELSE IF old.t = "object" /\ new.t = "object"
              THEN /\ now.t = "object"
                   /\ \A k \in SubKeys :
                        now.o[k] = IF new.o[k] # 0 THEN new.o[k] ELSE old.o[k]
            ELSE now = new

C5_Witness ==
  /\ OnExisting("update") /\ Connected
  /\ ~Present(Payload, "status") /\ Present(pre[Target], "status")
  /\ store[Target]["status"] = pre[Target]["status"]
  /\ Present(Payload, "profile")
  /\ store[Target]["profile"] # Payload["profile"]
  /\ store[Target]["profile"] # pre[Target]["profile"]
  /\ resp.out.Replaced = 1

UpsertRequest ==
  /\ Ran("write_data") /\ Named /\ req.Operation = "upsert" /\ KeyedPayload

\* C6 as stated: write_data(upsert) creates the document when its key is
\* absent (inserted = 1) and replaces the stored document when it exists
\* (replaced = 1); afterwards the stored document equals the payload.
C6_UpsertReplacedOne ==
  (UpsertRequest /\ Connected) =>
    /\ resp.err = ""
    /\ store[Target] = Payload
    /\ resp.out.Inserted = (IF pre[Target] = NoDoc THEN 1 ELSE 0)
    /\ resp.out.Replaced = (IF pre[Target] = NoDoc THEN 0 ELSE 1)

\* C6 as amended: write_data(upsert) creates the document when its key is
\* absent (inserted = 1) and, when the key exists, replaces the stored
\* document entirely; afterwards the stored document equals the payload and
\* fields not present in the payload are gone.  The response reports
\* replaced = 1 when the payload differs from the stored document and
\* unchanged = 1, replaced = 0 when it equals it.
C6_UpsertReplaces ==
  (UpsertRequest /\ Connected) =>
    /\ resp.err = ""
    /\ store[Target] = Payload
    /\ OthersUnchanged
    /\ resp.out.Inserted = (IF pre[Target] = NoDoc THEN 1 ELSE 0)
    /\ resp.out.Replaced = (IF pre[Target] # NoDoc /\ pre[Target] # Payload THEN 1 ELSE 0)
    /\ resp.out.Unchanged = (IF pre[Target] = Payload THEN 1 ELSE 0)
    /\ resp.out.Errors = 0

C6_Witness ==
  /\ UpsertRequest /\ Connected
  /\ Present(pre[Target], "status") /\ ~Present(Payload, "status")
  /\ ~Present(store[Target], "status")
  /\ resp.out.Replaced = 1

\* C7: write_data(insert) of a document whose primary key already exists
\* returns a normal Write Result (no error) with errors >= 1 and a
\* first_error message, does not count the document as inserted and leaves
\* the existing document unchanged.
C7_DuplicateInsertReported ==
  (OnExisting("insert") /\ Connected) =>
    /\ resp.err = ""
    /\ resp.out.Errors >= 1
    /\ resp.out.FirstError # ""
    /\ resp.out.Inserted = 0
    /\ store = pre

C9_InvalidOperationRejected ==
  (Ran("write_data")
   /\ req.Operation \notin {"", "insert", "update", "upsert", "delete"}) =>
    /\ resp.err # ""
    /\ ~parsed
    /\ Len(calls) = 0
    /\ store = pre

C9_Witness ==
  /\ Ran("write_data") /\ Named /\ req.Operation = "drop_table"
  /\ ObjectPayload /\ Stored(pre) # {}
  /\ resp.err = "invalid operation"
  /\ ~parsed /\ Len(calls) = 0 /\ store = pre

\* C10: write_data with an empty operation behaves exactly like
\* operation = insert: the same driver call, the same change of the
\* collection, and a response that reports operation "insert".
C10_DefaultIsInsert ==
  (Ran("write_data") /\ req.Operation = "") =>
    LET twin == WriteDataRun(pre, primaryKey, [req EXCEPT !.Operation = "insert"], env)
    IN /\ store = twin.store
       /\ resp = twin.resp
       /\ calls = twin.calls
       /\ returned = twin.returned
       /\ \A i \in 1..Len(calls) :
            calls[i].term = "insert" /\ calls[i].conflict = "error"
       /\ resp.err = "" => resp.out.Operation = "insert"

C10_Witness ==
  /\ Ran("write_data") /\ Named /\ req.Operation = "" /\ Connected
  /\ ObjectPayload
  /\ resp.err = "" /\ resp.out.Operation = "insert" /\ resp.out.Inserted = 1
  /\ Cardinality(Stored(store)) = Cardinality(Stored(pre)) + 1

\* C11: write_data whose payload is missing (nil or zero-length) or is not
\* well-formed JSON returns an error and an empty result without issuing any
\* driver call, whatever the operation is, and the collection is unchanged; a
\* missing payload is rejected before anything is parsed.
UnusablePayload == req.Data.form \in {"nil", "empty", "malformed"}

C11_BadPayloadRejected ==
  (Ran("write_data") /\ UnusablePayload) =>
    /\ resp.err # ""
    /\ resp.out = ZeroOutput
    /\ Len(calls) = 0
    /\ store = pre
    /\ (Named /\ DataLen(req.Data) = 0) => (resp.err = "data is required" /\ ~parsed)

C11_Witness ==
  /\ Ran("write_data") /\ Named /\ req.Data.form = "malformed"
  /\ req.Operation = "delete" /\ Stored(pre) # {}
  /\ resp.err = "failed to parse data" /\ parsed
  /\ Len(calls) = 0 /\ store = pre

\* the documents query_table returned, and the limit it applied
Results == resp.out.Results.items
Resolved == IF req.Limit <= 0 THEN DefaultLimit
            ELSE IF req.Limit > MaxLimit THEN MaxLimit ELSE req.Limit
Min(a, b) == IF a < b THEN a ELSE b

QueryRan == Ran("query_table") /\ Named /\ Connected

\* every returned document is a stored document, returned once
ResultsAreStored ==
  /\ \A i \in 1..Len(Results) :
       /\ Results[i]["id"].t = "string"
       /\ Results[i] = pre[Results[i]["id"].v]
  /\ \A i, j \in 1..Len(Results) : i # j => Results[i] # Results[j]

\* C12 as stated: every document query_table returns under a non-empty filter
\* equals the filter's value on every filter field, count is the number of
\* returned documents, and that number is min(resolved limit, number of
\* documents equal to the filter on every filter field); an empty filter
\* narrows nothing.
C12_ResultsEqualFilter ==
  QueryRan =>
    LET equal == {k \in Stored(pre) :
                    \A f \in Keys(req.Filter) : pre[k][f] = req.Filter[f]}
    IN /\ resp.err = ""
       /\ ResultsAreStored
       /\ \A i \in 1..Len(Results) :
            \A f \in Keys(req.Filter) : Results[i][f] = req.Filter[f]
       /\ resp.out.Count = Len(Results)
       /\ Len(Results) = Min(Resolved, Cardinality(equal))

\* C12 as amended: every document query_table returns under a non-empty
\* filter matches the filter on every filter field (conjunction), a field
\* whose filter value is an object being matched by every stored object that
\* holds the filter's sub-fields with equal values; count is the number of
\* returned documents, and that number is min(resolved limit, number of
\* matching documents); an empty filter narrows nothing.
C12_ResultsMatchFilter ==
  QueryRan =>
    LET match == {k \in Stored(pre) :
                    \A f \in Keys(req.Filter) : Holds(pre[k][f], req.Filter[f])}
    IN /\ resp.err = ""
       /\ ResultsAreStored
       /\ \A i \in 1..Len(Results) : Results[i]["id"].v \in match
       /\ resp.out.Count = Len(Results)
       /\ Len(Results) = Min(Resolved, Cardinality(match))
       /\ Keys(req.Filter) = {} => Len(Results) = Min(Resolved, Cardinality(Stored(pre)))
       /\ store = pre

C12_Witness ==
  /\ QueryRan
  /\ Keys(req.Filter) = {"status", "profile"}
  /\ Cardinality(Stored(pre)) = 2
  /\ resp.out.Count = 1
  /\ Results[1]["status"] = req.Filter["status"]
  /\ Results[1]["profile"] # req.Filter["profile"]

\* the stored documents a query's filter selects
Matching ==
  {k \in Stored(pre) : \A f \in Keys(req.Filter) : Holds(pre[k][f], req.Filter[f])}

ResultKeys == {Results[i]["id"].v : i \in 1..Len(Results)}

\* C13: query_table filters, then sorts ascending by the order-by field, then
\* limits: with order_by given the results are in ascending order of that
\* field (documents without the field first) and are the first (resolved
\* limit) documents of the sorted filtered set: no matching document left out
\* sorts before a returned one.
C13_FilterSortLimit ==
  (QueryRan /\ req.OrderBy # "") =>
    /\ calls[1].filter = req.Filter
    /\ calls[1].orderBy = req.OrderBy
    /\ calls[1].limit = Resolved
    /\ ResultKeys \subseteq Matching
    /\ Len(Results) = Min(Resolved, Cardinality(Matching))
    /\ \A i, j \in 1..Len(Results) :
         i < j => Rank(Results[i], req.OrderBy) <= Rank(Results[j], req.OrderBy)
    /\ \A k \in Matching \ ResultKeys : \A i \in 1..Len(Results) :
         Rank(Results[i], req.OrderBy) <= Rank(pre[k], req.OrderBy)

\* the scan yields the larger document first, the limit keeps one document,
\* and it is the smaller
C13_Witness ==
  /\ QueryRan /\ req.OrderBy = "status" /\ Resolved = 1
  /\ Cardinality(Matching) = 2
  /\ Len(Results) = 1
  /\ Present(Results[1], "status")
  /\ pre[env.scan[1]] # Results[1]
  /\ Rank(Results[1], "status") < Rank(pre[env.scan[1]], "status")

\* C14: table_info succeeds whenever its info query and the read of its
\* cursor succeed: a failed index-list lookup yields indexes = the empty list,
\* a failed count lookup yields doc_count = 0, and indexes is never null;
\* when the info query or its read fails the whole command fails.
C14_BestEffortLookups ==
  (Ran("table_info") /\ Named) =>
    /\ env.faults[1] = "ok" =>
         /\ resp.err = ""
         /\ resp.out.PrimaryKey = primaryKey
         /\ ~resp.out.Indexes.isNil
         /\ resp.out.Indexes.items = (IF env.faults[2] = "ok" THEN indexes ELSE <<>>)
         /\ resp.out.DocCount =
              (IF env.faults[3] = "ok" THEN Cardinality(Stored(pre)) ELSE 0)
    /\ env.faults[1] # "ok" =>
         /\ resp.err # ""
         /\ resp.out = ZeroOutput
    /\ store = pre

C14_Witness ==
  /\ Ran("table_info") /\ Named
  /\ env.faults = <<"ok", "run", "read">>
  /\ indexes # <<>> /\ Stored(pre) # {}
  /\ resp.err = ""
  /\ resp.out.Indexes = Slice(<<>>)
  /\ resp.out.DocCount = 0

\* C15: in list_databases, list_tables, query_table, table_info (its info
\* query) and write_data, a failure of the command's driver call or of the
\* read of its cursor makes the command return an error and no result; a
\* failed call is not retried: the command issues each of its driver calls at
\* most once, and none after the failed one.
StrictTools ==
  {"list_databases", "list_tables", "query_table", "table_info", "write_data"}

C15_FailuresPropagate ==
  (req.tool \in StrictTools) =>
    /\ Len(returned) = Len(calls)
    /\ \A i, j \in 1..Len(calls) : i # j => calls[i] # calls[j]
    /\ (Len(returned) > 0 /\ returned[1].err # "") =>
         /\ resp.err # ""
         /\ resp.cause = returned[1].err
         /\ resp.out = ZeroOutput
         /\ Len(calls) = 1
    /\ (Len(returned) > 0 /\ returned[1].err = "") => resp.err = ""

C15_Witness ==
  /\ Ran("query_table") /\ Named
  /\ env.faults[1] = "read"
  /\ Stored(pre) # {}
  /\ Len(calls) = 1 /\ returned[1].err # ""
  /\ resp.err = "failed to read results"
  /\ resp.out = ZeroOutput

\* C16: list_databases, list_tables, query_table and table_info never modify
\* data: in the four-tool server, where they are the only registered tools,
\* no step of any sequence of tool calls, with any parameters and any driver
\* failures, changes the documents the collection holds.
C16_ReadsNeverWrite == [][store' = store]_vars

C16_Witness ==
  /\ Ran("query_table") /\ Named /\ Connected
  /\ Keys(req.Filter) # {} /\ req.OrderBy # ""
  /\ resp.err = "" /\ resp.out.Count = 1
  /\ Cardinality(Stored(pre)) = 2
  /\ store = pre

\* an aggregate request that passed validation and reached the database
AggregateRan(ops) ==
  /\ Ran("aggregate") /\ Named /\ Connected
  /\ req.Operation \in ops
  /\ req.Operation # "count" => req.Field # ""

\* the matching documents that have the aggregated field
HaveField == {k \in Matching : Present(pre[k], req.Field)}
Numeric == \A k \in HaveField : pre[k][req.Field].t = "number"

RECURSIVE FieldSum(_)
FieldSum(keys) ==
  IF keys = {} THEN 0
  ELSE LET k == CHOOSE x \in keys : TRUE
       IN pre[k][req.Field].v + FieldSum(keys \ {k})

\* C17: aggregate min / max on field F returns as value the whole document
\* whose F is smallest / largest among the pre-filtered documents that have
\* F, whereas count, sum and avg return a bare number: the number of
\* pre-filtered documents, the sum of F, the mean of F.
C17_ExtremesAreDocuments ==
  /\ AggregateRan({"count"}) =>
       /\ resp.err = ""
       /\ resp.out.Value = Number(Cardinality(Matching))
  /\ (AggregateRan({"sum"}) /\ Numeric) =>
       /\ resp.err = ""
       /\ resp.out.Value = Number(FieldSum(HaveField))
  /\ (AggregateRan({"avg"}) /\ Numeric /\ HaveField # {}) =>
       /\ resp.err = ""
       /\ resp.out.Value.kind = "number"
       /\ resp.out.Value.d > 0
       /\ resp.out.Value.n * Cardinality(HaveField)
            = FieldSum(HaveField) * resp.out.Value.d
  /\ (AggregateRan({"min", "max"}) /\ HaveField # {}) =>
       /\ resp.err = ""
       /\ resp.out.Value.kind = "document"
       /\ \E k \in HaveField :
            /\ resp.out.Value.doc = pre[k]
            /\ \A o \in HaveField :
                 IF req.Operation = "min"
                   THEN pre[k][req.Field].v <= pre[o][req.Field].v
                   ELSE pre[k][req.Field].v >= pre[o][req.Field].v

\* max over two documents of different ages, the scan yielding the older
\* one last: the value is that whole document
C17_Witness ==
  /\ AggregateRan({"max"}) /\ req.Field = "age"
  /\ Cardinality(HaveField) = 2
  /\ resp.err = ""
  /\ resp.out.Value.kind = "document"
  /\ resp.out.Value.doc = pre[env.scan[2]]
  /\ Present(resp.out.Value.doc, "status")
  /\ resp.out.Value.doc["age"].v > pre[env.scan[1]]["age"].v

\* C18: aggregate returns an error without querying the database when the
\* operation is not one of count, sum, avg, min, max, group, or when it is
\* sum, avg, min, max or group and the field is empty; count needs no field.
C18_AggregateValidated ==
  (Ran("aggregate") /\ Named) =>
    /\ (\/ req.Operation \notin {"count", "sum", "avg", "min", "max", "group"}
        \/ /\ req.Operation \in {"sum", "avg", "min", "max", "group"}
           /\ req.Field = "") =>
         /\ resp.err # ""
         /\ resp.cause = ""
         /\ resp.out = ZeroOutput
         /\ Len(calls) = 0
         /\ store = pre
    /\ (req.Operation = "count" /\ req.Field = "") =>
         /\ Len(calls) = 1
         /\ Connected => resp.err = ""

C18_Witness ==
  /\ Ran("aggregate") /\ Named /\ Connected
  /\ req.Operation = "sum" /\ req.Field = ""
  /\ Stored(pre) # {}
  /\ resp.err = "field is required"
  /\ Len(calls) = 0

\* the entries of a group response, and the documents of one group
Entries == resp.out.Value.groups
GroupOf(key) == {k \in Matching : pre[k][req.Field] = key}
MemberSet(entry) == {entry.reduction.members[i] : i \in 1..Len(entry.reduction.members)}

GroupRan == AggregateRan({"group"}) /\ resp.err = ""

\* C19: aggregate group on field F returns one entry per distinct value of F
\* among the pre-filtered documents (the documents without F forming the
\* group of the null key).  Without a group_aggregation each entry carries
\* the list of its group's documents, every matching document appearing in
\* exactly one group; with one (count/sum/avg/min/max) each entry carries
\* that aggregate computed over the members of its group only.
C19_GroupsPartition ==
  /\ (AggregateRan({"group"}) /\ req.GroupAggregation \in {"", "count"}) =>
       resp.err = ""
  /\ GroupRan =>
       /\ resp.out.Value.kind = "groups"
       /\ {Entries[i].group : i \in 1..Len(Entries)}
            = {pre[k][req.Field] : k \in Matching}
       /\ \A i, j \in 1..Len(Entries) : i # j => Entries[i].group # Entries[j].group
       /\ \A i \in 1..Len(Entries) :
            LET red == Entries[i].reduction
                group == GroupOf(Entries[i].group)
                have == {k \in group : Present(pre[k], req.Field)}
            IN CASE req.GroupAggregation = "" ->
                      /\ red.kind = "members"
                      /\ MemberSet(Entries[i]) = {pre[k] : k \in group}
                      /\ Len(red.members) = Cardinality(group)
                 [] req.GroupAggregation = "count" ->
                      red = Number(Cardinality(group))
                 [] req.GroupAggregation = "sum" ->
                      red = Number(FieldSum(have))
                 [] req.GroupAggregation = "avg" ->
                      /\ red.kind = "number" /\ red.d > 0
                      /\ red.n * Cardinality(have) = FieldSum(have) * red.d
                 [] OTHER ->
                      /\ red.kind = "document"
                      /\ \E k \in have : red.doc = pre[k]
       /\ req.GroupAggregation = "" =>
            \A k \in Matching :
              Cardinality({i \in 1..Len(Entries) : pre[k] \in MemberSet(Entries[i])}) = 1

\* two documents of different status, grouped by status: two groups of one
C19_Witness ==
  /\ GroupRan /\ req.Field = "status" /\ req.GroupAggregation = ""
  /\ Cardinality(Matching) = 2
  /\ Len(Entries) = 2
  /\ \A i \in 1..2 : Len(Entries[i].reduction.members) = 1
  /\ Entries[1].group.t = "string" /\ Entries[2].group.t = "string"

BetweenRan ==
  /\ Ran("advanced_query") /\ Named /\ Connected
  /\ req.Operation = "between" /\ req.Index # ""
  /\ req.LowerBound.form # "malformed" /\ req.UpperBound.form # "malformed"
  /\ \E i \in 1..Len(indexes) : indexes[i] = req.Index

\* the documents whose indexed value v satisfies a <= v < b
Within ==
  {k \in Stored(pre) :
     /\ pre[k][req.Index].t = "number"
     /\ req.LowerBound.form = "number" => req.LowerBound.v <= pre[k][req.Index].v
     /\ req.UpperBound.form = "number" => pre[k][req.Index].v < req.UpperBound.v}

\* C20: advanced_query between on a secondary index with bounds a and b
\* returns exactly the documents whose indexed value v satisfies a <= v < b,
\* up to the resolved limit: v = a is included, v = b is excluded, and a
\* bound that is not supplied is unbounded on its side.
C20_BetweenHalfOpen ==
  BetweenRan =>
    /\ resp.err = ""
    /\ ResultsAreStored
    /\ ResultKeys \subseteq Within
    /\ Len(Results) = Min(Resolved, Cardinality(Within))
    /\ resp.out.Count = Len(Results)
    /\ calls[1].limit = Resolved

\* bounds [2, 4) over documents of ages 2 and 4: the first is returned, the
\* second is not
C20_Witness ==
  /\ BetweenRan
  /\ req.LowerBound = Bound("number", 2) /\ req.UpperBound = Bound("number", 4)
  /\ {pre[k]["age"] : k \in Stored(pre)} = {Num(2), Num(4)}
  /\ resp.out.Count = 1
  /\ Results[1]["age"] = Num(2)

JoinRan ==
  /\ Ran("advanced_query") /\ Named /\ Connected
  /\ req.Operation = "eq_join"
  /\ req.JoinField # "" /\ req.JoinTable # ""

\* the (source document, target document) pairs with equal join-field values
JoinedPairs ==
  {p \in Stored(pre) \X (1..Len(JoinRows)) :
     /\ Present(pre[p[1]], req.JoinField)
     /\ pre[p[1]][req.JoinField] = JoinRows[p[2]][req.JoinField]}

\* C21: advanced_query eq_join returns one row per (source document, target
\* document) pair with equal join-field values, the source document under
\* left and the target document under right, at most (resolved limit) rows;
\* with an empty join field or an empty join table it returns an error
\* without querying.
C21_EqJoinPairs ==
  /\ JoinRan =>
       /\ resp.err = ""
       /\ \A i \in 1..Len(Results) :
            \E p \in JoinedPairs :
              Results[i].left = pre[p[1]] /\ Results[i].right = JoinRows[p[2]]
       /\ \A i, j \in 1..Len(Results) : i # j => Results[i] # Results[j]
       /\ Len(Results) = Min(Resolved, Cardinality(JoinedPairs))
       /\ resp.out.Count = Len(Results)
       /\ calls[1].limit = Resolved
  /\ (/\ Ran("advanced_query") /\ Named /\ req.Operation = "eq_join"
      /\ (req.JoinField = "" \/ req.JoinTable = "")) =>
       /\ resp.err # ""
       /\ resp.out = ZeroOutput
       /\ Len(calls) = 0

\* a join on status: one source document matches both target documents, the
\* other matches none
C21_Witness ==
  /\ JoinRan /\ req.JoinField = "status" /\ Resolved > 1
  /\ Cardinality(Stored(pre)) = 2
  /\ \E k \in Stored(pre) : pre[k]["status"] = Str(2)
  /\ resp.out.Count = 2
  /\ Results[1].left = Results[2].left
  /\ Results[1].right # Results[2].right

SchemaRan == Ran("schema_inspector") /\ Named /\ Connected

\* the documents of the sampling pass, in the order they were sampled
Sampled ==
  LET rows == ScanRows(pre, env.scan)
      size == IF req.SampleSize <= 0 THEN 100 ELSE req.SampleSize
  IN SubSeq(rows, 1, Min(size, Len(rows)))

Reported == resp.out.Fields.items

\* C22: in one schema_inspector sampling pass the type reported for a field
\* name is the type of its value in the first sampled document that has the
\* field, whatever later sampled documents hold for it; every field some
\* sampled document has is reported exactly once and no other field is.
C22_FirstSampleWins ==
  SchemaRan =>
    /\ resp.err = ""
    /\ \A f \in Fields :
         LET holders == {i \in 1..Len(Sampled) : Present(Sampled[i], f)}
             entries == {j \in 1..Len(Reported) : Reported[j].name = f}
         IN IF holders = {} THEN entries = {}
            ELSE /\ Cardinality(entries) = 1
                 /\ \A j \in entries :
                      Reported[j].type = Sampled[Least(holders)][f].t
    /\ \A j \in 1..Len(Reported) : Reported[j].name \in Fields

\* the first sampled document holds an object under profile, the second a
\* string: the field is reported as object
C22_Witness ==
  /\ SchemaRan /\ Len(Sampled) = 2
  /\ Sampled[1]["profile"].t = "object"
  /\ Sampled[2]["profile"].t = "string"
  /\ \E j \in 1..Len(Reported) :
       Reported[j].name = "profile" /\ Reported[j].type = "object"

\* C23: schema_inspector with sample_size <= 0 uses and reports a sample size
\* of 100; a positive sample_size is used and reported as given, however
\* large; at most that many documents are sampled.
C23_SampleSizeResolved ==
  (Ran("schema_inspector") /\ Named) =>
    LET size == IF req.SampleSize <= 0 THEN 100 ELSE req.SampleSize
    IN /\ Len(calls) >= 1
       /\ calls[1].term = "sample" /\ calls[1].limit = size
       /\ Connected =>
            /\ resp.err = ""
            /\ resp.out.SampleSize = size
            /\ Len(Sampled) <= size
            /\ \A j \in 1..Len(Reported) :
                 \E i \in 1..Len(Sampled) : Present(Sampled[i], Reported[j].name)

\* a sample size above the limit cap of the queries is used as given
C23_Witness ==
  /\ SchemaRan /\ req.SampleSize > 1000
  /\ Cardinality(Stored(pre)) = 2
  /\ calls[1].limit = req.SampleSize
  /\ resp.out.SampleSize = req.SampleSize
  /\ Len(Reported) >= 2

\* C24: write_data(delete) with a payload that is a JSON value other than an
\* object (array, string, number, boolean) is never rejected by the handler
\* and never takes the point-delete path: the handler issues exactly one
\* filter-delete call whose filter is the parsed payload, unchanged.
NonObjectForms == JsonForms \ {"object", "null"}

NonObjectDelete ==
  /\ Ran("write_data") /\ Named /\ req.Operation = "delete"
  /\ req.Data.form \in NonObjectForms

C24_NonObjectDeleteFilters ==
  NonObjectDelete =>
    /\ parsed
    /\ Len(calls) = 1
    /\ calls[1].term = "filterDelete"
    /\ calls[1].data = [kind |-> req.Data.form, docs |-> req.Data.docs]
    /\ resp.err \in {"", "failed to execute delete"}
    /\ Connected => resp.err = ""

\* an array of two documents sent to delete: one filter-delete call carries
\* the array, and the engine reports what the filter removed
C24_Witness ==
  /\ NonObjectDelete /\ Connected
  /\ req.Data.form = "array" /\ Len(req.Data.docs) = 2
  /\ calls[1].term = "filterDelete" /\ calls[1].data.docs = req.Data.docs
  /\ Stored(pre) # {}
  /\ resp.err = "" /\ resp.out.Deleted = Cardinality(Stored(pre))
\* C26: whenever write_data returns an error, whether from validation or from
\* the driver, and also when only some documents of a multi-document payload
\* fail, the collection holds exactly the documents it held before the call.
C26_ErrorLeavesCollection ==
  (Ran("write_data") /\ resp.err # "") => store = pre

\* the case the code gets wrong: the command fails and a document of the
\* payload has been stored all the same
C26_PartialWriteBehindError ==
  /\ Ran("write_data") /\ req.Operation = "insert"
  /\ req.Data.form = "array" /\ Len(req.Data.docs) = 2
  /\ resp.err = "failed to execute insert" /\ resp.out = ZeroOutput
  /\ returned[1].wr.Inserted = 1 /\ returned[1].wr.Errors = 1
  /\ Cardinality(Stored(store)) = Cardinality(Stored(pre)) + 1
\* C27: write_data(delete) with the empty object {} is neither rejected nor
\* treated as a point delete: it issues a filter delete whose filter has no
\* condition, which every document satisfies, so every document of the
\* collection is deleted.
EmptyObjectDelete ==
  /\ Ran("write_data") /\ Named /\ req.Operation = "delete"
  /\ ObjectPayload /\ Keys(Payload) = {}

C27_EmptyObjectDeletesAll ==
  EmptyObjectDelete =>
    /\ parsed
    /\ Len(calls) = 1
    /\ calls[1].term = "filterDelete"
    /\ calls[1].data = [kind |-> "object", docs |-> <<NoDoc>>]
    /\ Connected =>
         /\ resp.err = ""
         /\ Stored(store) = {}
         /\ resp.out.Deleted = Cardinality(Stored(pre))

C27_Witness ==
  /\ EmptyObjectDelete /\ Connected
  /\ Cardinality(Stored(pre)) = 2
  /\ \E k \in Stored(pre) : Present(pre[k], "profile")
  /\ Stored(store) = {}
  /\ resp.out.Deleted = 2
\* C29: in every Write Result returned without error the counts agree with
\* the payload: for insert, update and upsert of N documents (N = 1 for a
\* single object) inserted + replaced + unchanged + errors = N and
\* deleted = 0; for delete inserted = replaced = 0; first_error is non-empty
\* exactly when errors > 0.
WriteResultReturned == Ran("write_data") /\ resp.err = ""

C29_CountsConsistent ==
  WriteResultReturned =>
    LET out == resp.out
        N == Len(req.Data.docs)
    IN /\ out.Operation \in {"insert", "update", "upsert"} =>
            /\ req.Data.form \in {"object", "array"}
            /\ out.Inserted + out.Replaced + out.Unchanged + out.Errors = N
            /\ out.Deleted = 0
       /\ out.Operation = "delete" => (out.Inserted = 0 /\ out.Replaced = 0)
       /\ (out.FirstError # "") <=> (out.Errors > 0)

\* an array of two documents sent to update: one is new, the other is
\* already stored with the same content
C29_Witness ==
  /\ WriteResultReturned /\ req.Operation = "update"
  /\ req.Data.form = "array" /\ Len(req.Data.docs) = 2
  /\ resp.out.Inserted = 1 /\ resp.out.Unchanged = 1
  /\ resp.out.Errors = 0
\* C28: a point delete with payload {id: v} removes only a document whose id
\* field equals v, whatever the primary-key field of the collection is
\* named; every document whose id field differs from v is unchanged.
C28_PointDeleteById ==
  PointDeleteRequest =>
    \A k \in Stored(pre) : pre[k]["id"] # Payload["id"] => store[k] = pre[k]

\* the case the code gets wrong: the collection is keyed by status, and the
\* document removed is the one stored under v, whose id is not v
C28_OtherDocumentDeleted ==
  /\ PointDeleteRequest /\ Connected
  /\ primaryKey = OtherPrimaryKey
  /\ calls[1].term = "getDelete" /\ calls[1].key = Payload["id"]
  /\ resp.err = "" /\ resp.out.Deleted = 1
  /\ \E k \in Stored(pre) :
       /\ store[k] = NoDoc
       /\ pre[k][primaryKey] = Payload["id"]
       /\ Present(pre[k], "id") /\ pre[k]["id"] # Payload["id"]
\* C30: for every input and every database state the package-level handlers
\* of the four-tool variant (listDatabases, listTables, queryTable,
\* tableInfo) return the same output and the same error outcome as the
\* methods ListDatabases, ListTables, QueryTable and TableInfo over the same
\* session, with the same validation, limit resolution and best-effort
\* defaults, and issue the same driver calls.
SameOutcome(o) ==
  /\ o.resp = resp
  /\ o.calls = calls
  /\ o.returned = returned
  /\ o.store = store

Alone(run) ==
  IF run.input.tool = "write_data"
    THEN WriteDataRun(Last(run.seen), primaryKey, run.input, run.e)
  ELSE IF run.input.tool = "query_table"
    THEN QueryTableRun(Last(run.seen), run.input, run.e)
  ELSE TableInfoRun(Last(run.seen), primaryKey, indexes, run.input, run.e)

Finished(p) == running[p].pc = "done"

Undisturbed(p) ==
  LET run == running[p]
      alone == Alone(run)
  IN /\ run.resp = alone.resp
     /\ Len(run.seen) = Len(alone.calls)
     /\ Last(run.after) = alone.store
     /\ \A i \in 1..(Len(run.seen) - 1) : run.after[i] = run.seen[i]

\* C25: command handlers share no mutable state.  The session handle is
\* assigned once, before any command runs, and no handler writes to it; and
\* under every interleaving of concurrently running commands the response
\* and the database effect of each command are those of its handler run
\* alone against the database states its driver calls observed.
C25_NoSharedState ==
  /\ [](\A p \in Slots :
          /\ running[p].pc # "idle" => session = "conn"
          /\ Finished(p) => Undisturbed(p))
  /\ [][session # "nil" => session' = session]_vars

\* a table_info whose count ran after a concurrent insert that was started
\* after its first call: it reports the count its last call observed, while
\* the other command is still in progress
C25_Witness ==
  \E p, q \in Slots :
    /\ p # q
    /\ Finished(p) /\ running[p].input.tool = "table_info"
    /\ Len(running[p].seen) = 3
    /\ running[p].seen[1] # running[p].seen[3]
    /\ running[p].resp.err = ""
    /\ running[p].resp.out.DocCount = Cardinality(Stored(running[p].seen[3]))
    /\ running[p].resp.out.DocCount # Cardinality(Stored(running[p].seen[1]))
    /\ running[q].pc = "shape" /\ running[q].input.tool = "write_data"
====
